---- MODULE Spec2Model ----
(***************************************************************************)
(* Model of the room-inventory text transformations of travel-tech:        *)
(*   - the amenities codec: the text-array encoders of the room create,    *)
(*     import and seed routes and the decoder of mapDbRowToHotelRoom;      *)
(*   - the CSV room transcoder: convertToCSV and parseCSV.                 *)
(* A string is a sequence of one-character strings, so that every          *)
(* conversion is computed character by character as the code does.         *)
(***************************************************************************)
EXTENDS Integers, Sequences, FiniteSets, TLC

VARIABLES pc, route, facilities, amenities, decoded, rooms, csvText, parsed,
          db, importing, error, requests, response, posted, fileInput,
          createPc, createInput, calls, insertResult, createResponse,
          offers, selectedOffer, isDetailsDialogOpen, currentStatus,
          isUpdatingStatus, statusRequest

vars ==
  <<pc, route, facilities, amenities, decoded, rooms, csvText, parsed,
    db, importing, error, requests, response, posted, fileInput,
    createPc, createInput, calls, insertResult, createResponse,
    offers, selectedOffer, isDetailsDialogOpen, currentStatus,
    isUpdatingStatus, statusRequest>>

\* the variables of the codec and of the transcoder, those of the import
\* endpoint and the upload flow, those of the create endpoint and those of
\* the offers tables
codecVars == <<route, facilities, amenities, decoded>>

importVars == <<db, importing, error, requests, response, posted, fileInput>>

createVars == <<createPc, createInput, calls, insertResult, createResponse>>

offerVars ==
  <<offers, selectedOffer, isDetailsDialogOpen, currentStatus,
    isUpdatingStatus, statusRequest>>

(***************************************************************************)
(* Bounds of the model.                                                    *)
(***************************************************************************)
\* longest facilities list drawn for the encoders
MaxListLen == 2
\* longest raw amenities string drawn for the decoder
MaxRawLen == 4
\* longest list of rooms drawn for export
MaxRooms == 2
\* most data rows of an uploaded file
MaxDataLines == 2
\* longest arbitrary text drawn for parseCSV
MaxCsvLen == 4

\* the number of stored rows from which no further import is started
MaxStored == 2

\* the number of offers from which no further offer is created
MaxOffers == 3

\* the number of requests in flight at a time
MaxInFlight == 1

(***************************************************************************)
(* Characters and the string primitives of the JavaScript runtime.         *)
(***************************************************************************)
Q == "\""
BS == "\\"
NL == "\n"

\* String.prototype.trim: the white space it removes
IsSpace(c) == c \in {" ", "\t", "\n", "\r"}

\* the indices of s that hold no white space
Inked(s) == {i \in 1..Len(s) : ~IsSpace(s[i])}

Least(S) == CHOOSE m \in S : \A k \in S : m <= k

Greatest(S) == CHOOSE m \in S : \A k \in S : m >= k

TrimStart(s) ==
  LET ink == Inked(s)
  IN IF ink = {} THEN <<>> ELSE SubSeq(s, Least(ink), Len(s))

Trim(s) ==
  LET ink == Inked(s)
  IN IF ink = {} THEN <<>> ELSE SubSeq(s, Least(ink), Greatest(ink))

\* String.prototype.split(sep) for a one-character separator: the pieces
\* between consecutive separators, the k-th separator being at SepAt(s, sep, k)
SepAt(s, sep, k) ==
  LET P == {i \in 1..Len(s) : s[i] = sep}
  IN IF k = 0 THEN 0
     ELSE IF k > Cardinality(P) THEN Len(s) + 1
     ELSE CHOOSE p \in P : Cardinality({q \in P : q <= p}) = k

Split(s, sep) ==
  [k \in 1..(Cardinality({i \in 1..Len(s) : s[i] = sep}) + 1) |->
     SubSeq(s, SepAt(s, sep, k - 1) + 1, SepAt(s, sep, k) - 1)]

\* Array.prototype.join(sep)
RECURSIVE Join(_, _)
Join(list, sep) ==
  IF list = <<>> THEN <<>>
  ELSE IF Len(list) = 1 THEN list[1]
  ELSE list[1] \o sep \o Join(Tail(list), sep)

\* Array.prototype.map
MapSeq(F(_), list) == [i \in 1..Len(list) |-> F(list[i])]

\* Array.prototype.filter(Boolean) on strings: the empty string is falsy
RECURSIVE FilterNonEmpty(_)
FilterNonEmpty(list) ==
  IF list = <<>> THEN <<>>
  ELSE IF Head(list) = <<>> THEN FilterNonEmpty(Tail(list))
  ELSE <<Head(list)>> \o FilterNonEmpty(Tail(list))

\* s.replace(/^"|"$/g, ""): one leading and one trailing double quote go
StripQuotes(s) ==
  LET a == IF s # <<>> /\ Head(s) = Q THEN Tail(s) ELSE s
  IN IF a # <<>> /\ a[Len(a)] = Q THEN SubSeq(a, 1, Len(a) - 1) ELSE a

\* f.replace(/"/g, '\\"'): every double quote becomes backslash, quote
RECURSIVE EscapeQuotes(_)
EscapeQuotes(s) ==
  IF s = <<>> THEN <<>>
  ELSE IF Head(s) = Q THEN <<BS, Q>> \o EscapeQuotes(Tail(s))
  ELSE <<Head(s)>> \o EscapeQuotes(Tail(s))

Includes(s, c) == \E i \in 1..Len(s) : s[i] = c

StartsWith(s, c) == s # <<>> /\ s[1] = c

EndsWith(s, c) == s # <<>> /\ s[Len(s)] = c

(***************************************************************************)
(* JavaScript values, as far as the codec tells them apart.  kind is one   *)
(* of "undefined", "array" (of strings: items), "array_other" (an array    *)
(* holding a non-string), "string" (text), "object", "number", "literal".  *)
(***************************************************************************)
JsUndefined == [kind |-> "undefined", items |-> <<>>, text |-> <<>>]
JsArray(l) == [kind |-> "array", items |-> l, text |-> <<>>]
JsArrayOther == [kind |-> "array_other", items |-> <<>>, text |-> <<>>]
JsString(s) == [kind |-> "string", items |-> <<>>, text |-> s]
JsObject == [kind |-> "object", items |-> <<>>, text |-> <<>>]
JsNumber == [kind |-> "number", items |-> <<>>, text |-> <<>>]
JsLiteral == [kind |-> "literal", items |-> <<>>, text |-> <<>>]

(***************************************************************************)
(* JSON.parse (ECMA-404), by recursive descent.  Every parser returns      *)
(* [ok, next, val]: next is the index after the value.  \u escapes are     *)
(* rejected here: no text of this model holds one.                         *)
(***************************************************************************)
JsonFail == [ok |-> FALSE, next |-> 0, val |-> JsUndefined]

JsonOk(n, v) == [ok |-> TRUE, next |-> n, val |-> v]

\* the character at index i, "" past the end
At(s, i) == IF i >= 1 /\ i <= Len(s) THEN s[i] ELSE ""

Digits == {"0", "1", "2", "3", "4", "5", "6", "7", "8", "9"}

RECURSIVE JsonSkipWs(_, _)
JsonSkipWs(s, i) ==
  IF At(s, i) \in {" ", "\t", "\n", "\r"} THEN JsonSkipWs(s, i + 1) ELSE i

RECURSIVE JsonStringFrom(_, _, _)
JsonStringFrom(s, i, acc) ==
  LET c == At(s, i)
      e == At(s, i + 1)
  IN IF c = "" THEN JsonFail
     ELSE IF c = Q THEN JsonOk(i + 1, JsString(acc))
     ELSE IF c = BS
       THEN IF e \in {Q, BS, "/"} THEN JsonStringFrom(s, i + 2, Append(acc, e))
            ELSE IF e = "n" THEN JsonStringFrom(s, i + 2, Append(acc, "\n"))
            ELSE IF e = "t" THEN JsonStringFrom(s, i + 2, Append(acc, "\t"))
            ELSE IF e = "r" THEN JsonStringFrom(s, i + 2, Append(acc, "\r"))
            ELSE IF e = "f" THEN JsonStringFrom(s, i + 2, Append(acc, "\f"))
            ELSE JsonFail
     ELSE IF c \in {"\n", "\t", "\r", "\f"} THEN JsonFail
     ELSE JsonStringFrom(s, i + 1, Append(acc, c))

RECURSIVE JsonDigits(_, _)
JsonDigits(s, i) == IF At(s, i) \in Digits THEN JsonDigits(s, i + 1) ELSE i

\* number: -? (0 | [1-9][0-9]*) (. [0-9]+)? ([eE] [+-]? [0-9]+)?
JsonNumber(s, i) ==
  LET a == IF At(s, i) = "-" THEN i + 1 ELSE i
      b == IF At(s, a) = "0" THEN a + 1
           ELSE IF At(s, a) \in Digits THEN JsonDigits(s, a)
           ELSE 0
      c == IF b = 0 THEN 0
           ELSE IF At(s, b) = "."
             THEN IF At(s, b + 1) \in Digits THEN JsonDigits(s, b + 1) ELSE 0
           ELSE b
      x == IF At(s, c + 1) \in {"+", "-"} THEN c + 2 ELSE c + 1
      d == IF c = 0 THEN 0
           ELSE IF At(s, c) \in {"e", "E"}
             THEN IF At(s, x) \in Digits THEN JsonDigits(s, x) ELSE 0
           ELSE c
  IN IF d = 0 THEN JsonFail ELSE JsonOk(d, JsNumber)

JsonWord(s, i, w) ==
  i + Len(w) - 1 <= Len(s) /\ SubSeq(s, i, i + Len(w) - 1) = w

RECURSIVE JsonValue(_, _)
RECURSIVE JsonElements(_, _, _, _)
RECURSIVE JsonMembers(_, _)

\* the elements of an array after "[": items are the strings met so far,
\* strs tells whether every element so far was a string
JsonElements(s, i, items, strs) ==
  LET v == JsonValue(s, i)
      k == JsonSkipWs(s, v.next)
      isStr == v.val.kind = "string"
      items2 == IF isStr THEN Append(items, v.val.text) ELSE items
      strs2 == strs /\ isStr
  IN IF ~v.ok THEN JsonFail
     ELSE IF At(s, k) = "," THEN JsonElements(s, JsonSkipWs(s, k + 1), items2, strs2)
     ELSE IF At(s, k) = "]"
       THEN JsonOk(k + 1, IF strs2 THEN JsArray(items2) ELSE JsArrayOther)
     ELSE JsonFail

\* the members of an object after "{": string : value, separated by commas
JsonMembers(s, i) ==
  LET key == IF At(s, i) = Q THEN JsonStringFrom(s, i + 1, <<>>) ELSE JsonFail
      c == JsonSkipWs(s, key.next)
      v == JsonValue(s, JsonSkipWs(s, c + 1))
      k == JsonSkipWs(s, v.next)
  IN IF ~key.ok \/ At(s, c) # ":" THEN JsonFail
     ELSE IF ~v.ok THEN JsonFail
     ELSE IF At(s, k) = "," THEN JsonMembers(s, JsonSkipWs(s, k + 1))
     ELSE IF At(s, k) = "}" THEN JsonOk(k + 1, JsObject)
     ELSE JsonFail

JsonValue(s, i) ==
  LET c == At(s, i)
      j == JsonSkipWs(s, i + 1)
  IN IF c = Q THEN JsonStringFrom(s, i + 1, <<>>)
     ELSE IF c = "["
       THEN IF At(s, j) = "]" THEN JsonOk(j + 1, JsArray(<<>>))
            ELSE JsonElements(s, j, <<>>, TRUE)
     ELSE IF c = "{"
       THEN IF At(s, j) = "}" THEN JsonOk(j + 1, JsObject)
            ELSE JsonMembers(s, j)
     ELSE IF c = "-" \/ c \in Digits THEN JsonNumber(s, i)
     ELSE IF JsonWord(s, i, <<"t", "r", "u", "e">>) THEN JsonOk(i + 4, JsLiteral)
     ELSE IF JsonWord(s, i, <<"f", "a", "l", "s", "e">>) THEN JsonOk(i + 5, JsLiteral)
     ELSE IF JsonWord(s, i, <<"n", "u", "l", "l">>) THEN JsonOk(i + 4, JsLiteral)
     ELSE JsonFail

\* JSON.parse(s): [ok, val]; ok = FALSE is the SyntaxError it throws
JsonParse(s) ==
  LET v == JsonValue(s, JsonSkipWs(s, 1))
  IN IF v.ok /\ JsonSkipWs(s, v.next) = Len(s) + 1
       THEN [ok |-> TRUE, val |-> v.val]
       ELSE [ok |-> FALSE, val |-> JsUndefined]

(***************************************************************************)
(* The amenities codec.                                                    *)
(***************************************************************************)
\* `"${f.replace(/"/g, '\\"')}"` of the create and seed routes
QuoteCreate(f) == <<Q>> \o EscapeQuotes(f) \o <<Q>>

\* the element between double quotes, its own double quotes left as they are
C17_QuoteUnescaped(f) == <<Q>> \o f \o <<Q>>

\* the element between double quotes, each of its double quotes written twice
C25_QuoteDoubled(f) ==
  <<Q>> \o Join([i \in 1..Len(f) |-> IF f[i] = Q THEN <<Q, Q>> ELSE <<f[i]>>],
               <<>>)
        \o <<Q>>

\* `"${String(f).replace(/"/g, '\\"')}"` of the import route; String(f) is f
\* for a string
QuoteImport(f) == <<Q>> \o EscapeQuotes(f) \o <<Q>>

C4_EmptyAsJson(fac) ==
  LET facilitiesArray == IF fac.kind = "array" THEN fac.items ELSE <<>>
  IN IF Len(facilitiesArray) > 0
       THEN <<"{">> \o Join(MapSeq(QuoteCreate, facilitiesArray), <<",">>) \o <<"}">>
       ELSE <<"[", "]">>

\* room create: facilitiesArray and amenitiesArray of POST
CreateAmenitiesArray(fac) ==
  LET facilitiesArray == IF fac.kind = "array" THEN fac.items ELSE <<>>
  IN IF Len(facilitiesArray) > 0
       THEN <<"{">> \o Join(MapSeq(QuoteCreate, facilitiesArray), <<",">>) \o <<"}">>
       ELSE <<"{", "}">>

\* room import: facilitiesArray and amenitiesArray of each submitted room
ImportAmenitiesArray(fac) ==
  LET facilitiesArray == IF fac.kind = "array" THEN fac.items ELSE <<>>
  IN IF Len(facilitiesArray) > 0
       THEN <<"{">> \o Join(MapSeq(QuoteImport, facilitiesArray), <<",">>) \o <<"}">>
       ELSE <<"{", "}">>

\* room seed: the amenities of each room of DUMMY_ROOMS, always a list
SeedAmenities(list) ==
  IF Len(list) > 0
    THEN <<"{">> \o Join(MapSeq(QuoteCreate, list), <<",">>) \o <<"}">>
    ELSE <<"{", "}">>

\* row.amenities.match(/^\{(.+)\}$/): "." matches no line terminator
BracketMatches(text) ==
  /\ Len(text) >= 3
  /\ text[1] = "{"
  /\ text[Len(text)] = "}"
  /\ \A i \in 2..(Len(text) - 1) : text[i] \notin {"\n", "\r"}

\* s.trim().replace(/^"|"$/g, "")
BracketPiece(s) == StripQuotes(Trim(s))

\* match[1].split(",").map(...).filter(Boolean)
BracketItems(text) ==
  FilterNonEmpty(MapSeq(BracketPiece, Split(SubSeq(text, 2, Len(text) - 1), ",")))

\* a value is truthy unless undefined or the empty string (of those drawn)
Truthy(v) == ~(v.kind = "undefined" \/ (v.kind = "string" /\ v.text = <<>>))

\* the result of a try block: threw, or the value it left in facilities
Returned(v) == [threw |-> FALSE, value |-> v]
Thrown == [threw |-> TRUE, value |-> JsUndefined]

C5_BracketOnly(text) ==
  IF BracketMatches(text) THEN Returned(JsArray(BracketItems(text)))
  ELSE Returned(JsArray(<<>>))

\* the inner try/catch: JSON first, the bracket form if JSON.parse throws
ParseAmenitiesString(text) ==
  LET j == JsonParse(text)
  IN IF j.ok THEN Returned(j.val)
     ELSE IF BracketMatches(text) THEN Returned(JsArray(BracketItems(text)))
     ELSE Returned(JsArray(<<>>))

\* the body of the outer try
AmenitiesTryBody(am) ==
  IF Truthy(am)
    THEN IF am.kind = "array" THEN Returned(am)
         ELSE IF am.kind = "string" THEN ParseAmenitiesString(am.text)
         ELSE Returned(JsArray(<<>>))
    ELSE Returned(JsArray(<<>>))

C10_NoCatch(am) ==
  IF Truthy(am) /\ am.kind = "string" /\ ~JsonParse(am.text).ok
    THEN Thrown
    ELSE AmenitiesTryBody(am)

\* the facilities mapDbRowToHotelRoom returns for row.amenities = am: the
\* outer catch turns anything thrown into the empty list
MapDbRowFacilities(am) ==
  LET r == AmenitiesTryBody(am)
  IN IF r.threw THEN Returned(JsArray(<<>>)) ELSE r

(***************************************************************************)
(* Inputs of the codec.                                                    *)
(***************************************************************************)
\* the facility names drawn: empty, padded, with a comma, with a double
\* quote, with a backslash, and two names of FACILITIES_LIST
Names ==
  { <<>>,
    <<"a">>,
    <<" ", "a">>,
    <<"a", ",", "b">>,
    <<"a", Q, "b">>,
    <<"a", BS>>,
    <<"L", "i", "n", "e", "n">>,
    <<"S", "e", "a", " ", "v", "i", "e", "w">> }

\* the sequences over S of length at most n
SeqsUpTo(S, n) == UNION {[1..k -> S] : k \in 0..n}

FacilityLists == SeqsUpTo(Names, MaxListLen)

\* the facilities member of a request body: a list of strings, or no list
FacilityValues ==
  {JsArray(l) : l \in FacilityLists}
    \cup {JsUndefined, JsObject, JsString(<<"L", "i", "n", "e", "n">>)}

\* the characters of the raw amenities strings drawn
RawChars == {"{", "}", "[", "]", Q, ",", "a", "1", " "}

\* stored strings of the bracket form whose element holds a line break
LineBreakRows ==
  { <<"{", "a", NL, "b", "}">>,
    <<"{", Q, "a", NL, "b", Q, ",", Q, "a", Q, "}">> }

RawStrings == SeqsUpTo(RawChars, MaxRawLen) \cup LineBreakRows

\* JSON.stringify of a list of strings (the legacy JSON form of a row)
RECURSIVE JsonEscape(_)
JsonEscape(s) ==
  IF s = <<>> THEN <<>>
  ELSE IF Head(s) \in {Q, BS} THEN <<BS, Head(s)>> \o JsonEscape(Tail(s))
  ELSE <<Head(s)>> \o JsonEscape(Tail(s))

JsonQuote(s) == <<Q>> \o JsonEscape(s) \o <<Q>>

JsonArrayText(l) == <<"[">> \o Join(MapSeq(JsonQuote, l), <<",">>) \o <<"]">>

NoResult == [threw |-> FALSE, value |-> JsUndefined]

NoParse == [threw |-> FALSE, rooms |-> <<>>]

(***************************************************************************)
(* Numbers and letters of the CSV transcoder.                              *)
(***************************************************************************)
DigitChars == <<"0", "1", "2", "3", "4", "5", "6", "7", "8", "9">>

DigitValue(c) == (CHOOSE k \in 1..Len(DigitChars) : DigitChars[k] = c) - 1

RECURSIVE NatToStr(_)
NatToStr(n) ==
  IF n < 10 THEN <<DigitChars[n + 1]>>
  ELSE Append(NatToStr(n \div 10), DigitChars[(n % 10) + 1])

\* Number.prototype.toString of an integer
IntToStr(n) == IF n < 0 THEN <<"-">> \o NatToStr(0 - n) ELSE NatToStr(n)

RECURSIVE DigitsValue(_, _)
DigitsValue(s, acc) ==
  IF s # <<>> /\ Head(s) \in Digits
    THEN DigitsValue(Tail(s), 10 * acc + DigitValue(Head(s)))
    ELSE acc

\* parseInt(s, 10): leading white space, a sign, then the digits before the
\* first other character; nan when there is no digit
ParseInt(s) ==
  LET a == TrimStart(s)
      neg == a # <<>> /\ Head(a) = "-"
      b == IF a # <<>> /\ Head(a) \in {"-", "+"} THEN Tail(a) ELSE a
      v == DigitsValue(b, 0)
  IN IF b # <<>> /\ Head(b) \in Digits
       THEN [nan |-> FALSE, n |-> IF neg THEN 0 - v ELSE v]
       ELSE [nan |-> TRUE, n |-> 0]

UpperChars == <<"A", "B", "C", "D", "E", "F", "G", "H", "I", "J", "K", "L", "M",
                "N", "O", "P", "Q", "R", "S", "T", "U", "V", "W", "X", "Y", "Z">>

LowerChars == <<"a", "b", "c", "d", "e", "f", "g", "h", "i", "j", "k", "l", "m",
                "n", "o", "p", "q", "r", "s", "t", "u", "v", "w", "x", "y", "z">>

LowerChar(c) ==
  IF \E k \in 1..Len(UpperChars) : UpperChars[k] = c
    THEN LowerChars[CHOOSE k \in 1..Len(UpperChars) : UpperChars[k] = c]
    ELSE c

\* String.prototype.toLowerCase
ToLowerCase(s) == [i \in 1..Len(s) |-> LowerChar(s[i])]

\* s.replace(/"/g, '""')
RECURSIVE DoubleQuotes(_)
DoubleQuotes(s) ==
  IF s = <<>> THEN <<>>
  ELSE IF Head(s) = Q THEN <<Q, Q>> \o DoubleQuotes(Tail(s))
  ELSE <<Head(s)>> \o DoubleQuotes(Tail(s))

\* s.replace(/""/g, '"'): leftmost pairs, not overlapping
RECURSIVE UndoubleQuotes(_)
UndoubleQuotes(s) ==
  IF s = <<>> THEN <<>>
  ELSE IF Len(s) >= 2 /\ s[1] = Q /\ s[2] = Q
    THEN <<Q>> \o UndoubleQuotes(SubSeq(s, 3, Len(s)))
  ELSE <<Head(s)>> \o UndoubleQuotes(Tail(s))

(***************************************************************************)
(* convertToCSV.  A room is a record with the fields of HotelRoom; its     *)
(* facilities are a JavaScript value, a list of strings in every room      *)
(* exported here.                                                          *)
(***************************************************************************)
\* the header row with the first column named id
C24_IdColumn ==
  << <<"I", "D">>,
     <<"R", "o", "o", "m", " ", "N", "u", "m", "b", "e", "r">>,
     <<"R", "o", "o", "m", " ", "T", "y", "p", "e">>,
     <<"F", "l", "o", "o", "r">>,
     <<"C", "a", "p", "a", "c", "i", "t", "y">>,
     <<"F", "a", "c", "i", "l", "i", "t", "i", "e", "s">>,
     <<"S", "t", "a", "t", "u", "s">>,
     <<"C", "r", "e", "a", "t", "e", "d", " ", "A", "t">>,
     <<"U", "p", "d", "a", "t", "e", "d", " ", "A", "t">> >>

ExportHeaders ==
  << <<"R", "o", "o", "m", " ", "I", "D">>,
     <<"R", "o", "o", "m", " ", "N", "u", "m", "b", "e", "r">>,
     <<"R", "o", "o", "m", " ", "T", "y", "p", "e">>,
     <<"F", "l", "o", "o", "r">>,
     <<"C", "a", "p", "a", "c", "i", "t", "y">>,
     <<"F", "a", "c", "i", "l", "i", "t", "i", "e", "s">>,
     <<"S", "t", "a", "t", "u", "s">>,
     <<"C", "r", "e", "a", "t", "e", "d", " ", "A", "t">>,
     <<"U", "p", "d", "a", "t", "e", "d", " ", "A", "t">> >>

\* the row with the facilities and status cells in each other's place
C11_StatusBeforeFacilities(room) ==
  << room.id, room.roomNumber, room.roomType, IntToStr(room.floor),
     IntToStr(room.capacity), room.status,
     Join(room.facilities.items, <<";", " ">>), room.createdAt,
     room.updatedAt >>

ExportRow(room) ==
  << room.id, room.roomNumber, room.roomType, IntToStr(room.floor),
     IntToStr(room.capacity), Join(room.facilities.items, <<";", " ">>),
     room.status, room.createdAt, room.updatedAt >>

\* quoting only the cells that hold a comma, a double quote or a line break
C12_QuoteWhenNeeded(cell) ==
  IF \E i \in 1..Len(cell) : cell[i] \in {",", Q, NL}
  THEN <<Q>> \o DoubleQuotes(cell) \o <<Q>>
  ELSE cell

\* `"${String(cell).replace(/"/g, '""')}"`
CsvCell(cell) == <<Q>> \o DoubleQuotes(cell) \o <<Q>>

ExportLine(room) == Join(MapSeq(CsvCell, ExportRow(room)), <<",">>)

ConvertToCSV(rs) ==
  Join(<<Join(ExportHeaders, <<",">>)>> \o MapSeq(ExportLine, rs), <<NL>>)

(***************************************************************************)
(* parseCSV.                                                               *)
(***************************************************************************)
\* csvText.split("\n").filter((line) => line.trim())
RECURSIVE FilterNonBlank(_)
FilterNonBlank(ls) ==
  IF ls = <<>> THEN <<>>
  ELSE IF Trim(Head(ls)) = <<>> THEN FilterNonBlank(Tail(ls))
  ELSE <<Head(ls)>> \o FilterNonBlank(Tail(ls))

CsvLines(text) == FilterNonBlank(Split(text, NL))

\* the guard left out: every text goes on to read lines[0]
C8_NoGuard(lines) == Len(lines) < 0

\* if (lines.length < 2) return []
TooFewLines(lines) == Len(lines) < 2

\* the loop with a comma ending the field in quote mode too
C18_SplitEveryComma(st, line, i) ==
  IF st.skip THEN [st EXCEPT !.skip = FALSE]
  ELSE IF line[i] = Q
    THEN IF st.inQuotes /\ At(line, i + 1) = Q
           THEN [st EXCEPT !.current = Append(@, Q), !.skip = TRUE]
           ELSE [st EXCEPT !.inQuotes = ~@]
  ELSE IF line[i] = ","
    THEN [st EXCEPT !.result = Append(@, Trim(st.current)), !.current = <<>>]
  ELSE [st EXCEPT !.current = Append(@, line[i])]

\* one iteration of the character loop of parseCSVLine at index i (line[i - 1]
\* in the code); skip is the i++ of the escaped quote, which passes over the
\* next character
ScanStep(st, line, i) ==
  IF st.skip THEN [st EXCEPT !.skip = FALSE]
  ELSE IF line[i] = Q
    THEN IF st.inQuotes /\ At(line, i + 1) = Q
           THEN [st EXCEPT !.current = Append(@, Q), !.skip = TRUE]
           ELSE [st EXCEPT !.inQuotes = ~@]
  ELSE IF line[i] = "," /\ ~st.inQuotes
    THEN [st EXCEPT !.result = Append(@, Trim(st.current)), !.current = <<>>]
  ELSE [st EXCEPT !.current = Append(@, line[i])]

\* the iterations lo..hi in order; the range is halved, and the state after
\* the first half is computed before the second half starts, to keep the
\* evaluation shallow
RECURSIVE ScanRange(_, _, _, _)
ScanRange(line, lo, hi, st) ==
  IF lo > hi THEN st
  ELSE IF lo = hi THEN ScanStep(st, line, lo)
  ELSE LET half == ScanRange(line, lo, (lo + hi) \div 2, st)
       IN IF half.skip \in BOOLEAN
            THEN ScanRange(line, ((lo + hi) \div 2) + 1, hi, half)
            ELSE half

ParseCSVLine(line) ==
  LET st == ScanRange(line, 1, Len(line),
                      [result |-> <<>>, current |-> <<>>,
                       inQuotes |-> FALSE, skip |-> FALSE])
  IN Append(st.result, Trim(st.current))

\* the header cell trimmed only, its quotes kept
C23_HeaderQuoted(h) == Trim(h)

\* h.trim().replace(/^"|"$/g, "")
HeaderName(h) == StripQuotes(Trim(h))

ParseHeaders(line) == MapSeq(HeaderName, ParseCSVLine(line))

\* values[index].replace(/^"|"$/g, "").replace(/""/g, '"')
CellValue(v) == UndoubleQuotes(StripQuotes(v))

C9_SplitUntrimmed(value, sep) == FilterNonEmpty(Split(value, sep))

\* value.split(sep).map((a) => a.trim()).filter(Boolean)
SplitTrimmed(value, sep) == FilterNonEmpty(MapSeq(Trim, Split(value, sep)))

\* the ';' rule tried before the JSON rule
C19_SemicolonFirst(value) ==
  IF Includes(value, ";") THEN JsArray(SplitTrimmed(value, ";"))
  ELSE IF StartsWith(value, "[") /\ EndsWith(value, "]")
    THEN IF JsonParse(value).ok THEN JsonParse(value).val
         ELSE JsArray(SplitTrimmed(value, ","))
  ELSE IF value # <<>> THEN JsArray(<<value>>)
  ELSE JsArray(<<>>)

\* the facilities cell: the try block, and the catch when JSON.parse throws
CsvFacilities(value) ==
  IF StartsWith(value, "[") /\ EndsWith(value, "]")
    THEN IF JsonParse(value).ok THEN JsonParse(value).val
         ELSE JsArray(SplitTrimmed(value, ","))
  ELSE IF Includes(value, ";") THEN JsArray(SplitTrimmed(value, ";"))
  ELSE IF value # <<>> THEN JsArray(<<value>>)
  ELSE JsArray(<<>>)

\* parseInt(value, 10) || 0
IntOrZero(value) == IF ParseInt(value).nan THEN 0 ELSE ParseInt(value).n

\* the placeholders of new Date().toISOString() and of
\* `RM-${Date.now()}-${Math.random()...}`: the clock and the random digits
\* are one symbol each
NowIso == <<"<now>">>
SynthId == <<"R", "M", "-", "<ms>", "-", "<random>">>

\* the Partial<HotelRoom> before any header is applied: a field not yet set
\* is undefined, which every later test (||, &&) treats as it treats the
\* empty string and 0, so those stand for it
EmptyRoom ==
  [ id |-> <<>>, roomNumber |-> <<>>, roomType |-> <<>>, floor |-> 0,
    capacity |-> 0, facilities |-> JsUndefined, status |-> <<>>,
    createdAt |-> <<>>, updatedAt |-> <<>> ]

\* the switch on header.toLowerCase()
ApplyHeader(room, header, raw) ==
  LET value == CellValue(raw)
      h == ToLowerCase(header)
  IN IF h = <<"i", "d">> THEN [room EXCEPT !.id = value]
     ELSE IF h \in {<<"r", "o", "o", "m", "-", "n", "u", "m", "b", "e", "r">>, <<"r", "o", "o", "m", " ", "n", "u", "m", "b", "e", "r">>}
       THEN [room EXCEPT !.roomNumber = value]
     ELSE IF h \in {<<"r", "o", "o", "m", "-", "t", "y", "p", "e">>, <<"r", "o", "o", "m", " ", "t", "y", "p", "e">>}
       THEN [room EXCEPT !.roomType = value]
     ELSE IF h = <<"f", "l", "o", "o", "r">> THEN [room EXCEPT !.floor = IntOrZero(value)]
     ELSE IF h = <<"c", "a", "p", "a", "c", "i", "t", "y">> THEN [room EXCEPT !.capacity = IntOrZero(value)]
     ELSE IF h \in {<<"a", "m", "e", "n", "i", "t", "i", "e", "s">>, <<"f", "a", "c", "i", "l", "i", "t", "i", "e", "s">>}
       THEN [room EXCEPT !.facilities = CsvFacilities(value)]
     ELSE IF h = <<"s", "t", "a", "t", "u", "s">> THEN [room EXCEPT !.status = value]
     ELSE IF h \in {<<"c", "r", "e", "a", "t", "e", "d", "_", "a", "t">>, <<"c", "r", "e", "a", "t", "e", "d", " ", "a", "t">>}
       THEN [room EXCEPT !.createdAt = IF value # <<>> THEN value ELSE NowIso]
     ELSE IF h \in {<<"u", "p", "d", "a", "t", "e", "d", "_", "a", "t">>, <<"u", "p", "d", "a", "t", "e", "d", " ", "a", "t">>}
       THEN [room EXCEPT !.updatedAt = IF value # <<>> THEN value ELSE NowIso]
     ELSE room

\* headers.forEach((header, index) => ...) from index on
RECURSIVE ApplyHeaders(_, _, _, _)
ApplyHeaders(headers, values, index, room) ==
  IF index > Len(headers) THEN room
  ELSE ApplyHeaders(headers, values, index + 1,
                    ApplyHeader(room, headers[index], values[index]))

RowRoom(headers, values) == ApplyHeaders(headers, values, 1, EmptyRoom)

C6_OnlyShortRowsSkipped(headers, values) == Len(values) < Len(headers)

\* if (values.length !== headers.length) continue
RowSkipped(headers, values) == Len(values) # Len(headers)

C7_NumberOrType(room) == room.roomNumber # <<>> \/ room.roomType # <<>>

\* if (room.roomNumber && room.roomType)
RowKept(room) == room.roomNumber # <<>> /\ room.roomType # <<>>

\* the record with a status outside the known set replaced by available
C22_KnownStatusOnly(room) ==
  [ id |-> IF room.id # <<>> THEN room.id ELSE SynthId,
    roomNumber |-> room.roomNumber,
    roomType |-> room.roomType,
    floor |-> IF room.floor # 0 THEN room.floor ELSE 1,
    capacity |-> IF room.capacity # 0 THEN room.capacity ELSE 1,
    pricePerNight |-> 0,
    facilities |-> IF room.facilities.kind = "undefined"
                     THEN JsArray(<<>>) ELSE room.facilities,
    status |-> IF room.status \in
                    { <<"o", "c", "c", "u", "p", "i", "e", "d">>,
                      <<"r", "e", "s", "e", "r", "v", "e", "d">>,
                      <<"m", "a", "i", "n", "t", "e", "n", "a", "n", "c", "e">> }
                 THEN room.status
               ELSE <<"a", "v", "a", "i", "l", "a", "b", "l", "e">>,
    createdAt |-> IF room.createdAt # <<>> THEN room.createdAt ELSE NowIso,
    updatedAt |-> IF room.updatedAt # <<>> THEN room.updatedAt ELSE NowIso ]

\* the record pushed for a kept row, with the defaults of its fields
PushedRoom(room) ==
  [ id |-> IF room.id # <<>> THEN room.id ELSE SynthId,
    roomNumber |-> room.roomNumber,
    roomType |-> room.roomType,
    floor |-> IF room.floor # 0 THEN room.floor ELSE 1,
    capacity |-> IF room.capacity # 0 THEN room.capacity ELSE 1,
    pricePerNight |-> 0,
    facilities |-> IF room.facilities.kind = "undefined"
                     THEN JsArray(<<>>) ELSE room.facilities,
    status |-> IF room.status # <<>> THEN room.status
               ELSE <<"a", "v", "a", "i", "l", "a", "b", "l", "e">>,
    createdAt |-> IF room.createdAt # <<>> THEN room.createdAt ELSE NowIso,
    updatedAt |-> IF room.updatedAt # <<>> THEN room.updatedAt ELSE NowIso ]

\* the result of parseCSV: threw, or the list it returns
Parsed(rs) == [threw |-> FALSE, rooms |-> rs]
ParseThrew == [threw |-> TRUE, rooms |-> <<>>]

\* the loop over the data lines from line i on (lines[i - 1] in the code);
\* reading a cell of a row shorter than the header row is a TypeError
RECURSIVE ParseRows(_, _, _, _)
ParseRows(lines, headers, i, acc) ==
  IF i > Len(lines) THEN Parsed(acc)
  ELSE LET values == ParseCSVLine(lines[i])
       IN IF RowSkipped(headers, values) THEN ParseRows(lines, headers, i + 1, acc)
          ELSE IF Len(values) < Len(headers) THEN ParseThrew
          ELSE IF RowKept(RowRoom(headers, values))
            THEN ParseRows(lines, headers, i + 1,
                           Append(acc, PushedRoom(RowRoom(headers, values))))
          ELSE ParseRows(lines, headers, i + 1, acc)

\* parseCSV(csvText); lines[0] of an empty list is undefined, and
\* parseCSVLine(undefined) is a TypeError
ParseCSV(text) ==
  LET lines == CsvLines(text)
  IN IF TooFewLines(lines) THEN Parsed(<<>>)
     ELSE IF lines = <<>> THEN ParseThrew
     ELSE ParseRows(lines, ParseHeaders(lines[1]), 2, <<>>)

(***************************************************************************)
(* Inputs of the CSV transcoder.                                           *)
(***************************************************************************)
\* the rooms drawn for export: the room of the export example, a ground
\* floor room without facilities, a room type with double quotes, one with
\* a comma, and a room of capacity 0
SampleRooms ==
  { [ id |-> <<"R", "M", "-", "1">>,
      roomNumber |-> <<"1", "0", "1">>,
      roomType |-> <<"S", "t", "a", "n", "d", "a", "r", "d", " ", "S",
                  "i", "n", "g", "l", "e">>,
      floor |-> 1, capacity |-> 2, pricePerNight |-> 0,
      facilities |-> JsArray(<<<<"A", "i", "r", " ", "c", "o", "n", "d", "i", "t", "i", "o", "n", "i", "n", "g">>,
                               <<"L", "i", "n", "e", "n">>>>),
      status |-> <<"a", "v", "a", "i", "l", "a", "b", "l", "e">>,
      createdAt |-> <<"2", "0", "2", "4", "-", "0", "1", "-", "0", "1">>,
      updatedAt |-> <<"2", "0", "2", "4", "-", "0", "1", "-", "0", "1">> ],
    [ id |-> <<"R", "M", "-", "2">>,
      roomNumber |-> <<"1", "0", "2">>,
      roomType |-> <<"D", "e", "l", "u", "x", "e", " ", "S", "u", "i",
                  "t", "e">>,
      floor |-> 0, capacity |-> 2, pricePerNight |-> 0,
      facilities |-> JsArray(<<>>),
      status |-> <<"o", "c", "c", "u", "p", "i", "e", "d">>,
      createdAt |-> <<"2", "0", "2", "4", "-", "0", "1", "-", "0", "1">>,
      updatedAt |-> <<"2", "0", "2", "4", "-", "0", "1", "-", "0", "1">> ],
    [ id |-> <<"R", "M", "-", "3">>,
      roomNumber |-> <<"7">>,
      roomType |-> <<"K", "i", "n", "g", " ", Q, "R", "o", "y", "a", "l",
                  Q>>,
      floor |-> 2, capacity |-> 1, pricePerNight |-> 0,
      facilities |-> JsArray(<<<<"S", "e", "a", " ", "v", "i", "e", "w">>>>),
      status |-> <<"m", "a", "i", "n", "t", "e", "n", "a", "n", "c", "e">>,
      createdAt |-> <<"2", "0", "2", "4", "-", "0", "1", "-", "0", "1">>,
      updatedAt |-> <<"2", "0", "2", "4", "-", "0", "1", "-", "0", "1">> ],
    [ id |-> <<"R", "M", "-", "4">>,
      roomNumber |-> <<"2", "0", "1">>,
      roomType |-> <<"T", "w", "i", "n", ",", " ", "g", "a", "r", "d",
                  "e", "n">>,
      floor |-> 12, capacity |-> 4, pricePerNight |-> 0,
      facilities |-> JsArray(<<<<"H", "o", "t", " ", "t", "u", "b">>,
                               <<"S", "a", "u", "n", "a">>,
                               <<"S", "e", "a", " ", "v", "i", "e", "w">>>>),
      status |-> <<"r", "e", "s", "e", "r", "v", "e", "d">>,
      createdAt |-> <<"2", "0", "2", "4", "-", "0", "1", "-", "0", "1">>,
      updatedAt |-> <<"2", "0", "2", "4", "-", "0", "1", "-", "0", "1">> ],
    [ id |-> <<"R", "M", "-", "5">>,
      roomNumber |-> <<"2", "0", "2">>,
      roomType |-> <<"S", "t", "a", "n", "d", "a", "r", "d", " ", "D",
                  "o", "u", "b", "l", "e">>,
      floor |-> 3, capacity |-> 0, pricePerNight |-> 0,
      facilities |-> JsArray(<<<<"F", "a", "x">>>>),
      status |-> <<"a", "v", "a", "i", "l", "a", "b", "l", "e">>,
      createdAt |-> <<"2", "0", "2", "4", "-", "0", "1", "-", "0", "1">>,
      updatedAt |-> <<"2", "0", "2", "4", "-", "0", "1", "-", "0", "1">> ] }

\* the header row convertToCSV writes
ExportHeaderLine == Join(ExportHeaders, <<",">>)

\* a data row of nine cells: number n, type t and the quoted facilities
\* cell "a; b", the other cells as in the export example
ExampleLine(n, t, a, b) ==
  Join(<< <<"R", "M", "-", "1">>,
          n,
          t,
          <<"1">>,
          <<"2">>,
          <<Q>> \o a \o <<";", " ">> \o b \o <<Q>>,
          <<"a", "v", "a", "i", "l", "a", "b", "l", "e">>,
          <<"2", "0", "2", "4", "-", "0", "1", "-", "0", "1", "T", "0",
          "0", ":", "0", "0", ":", "0", "0", "Z">>,
          <<"2", "0", "2", "4", "-", "0", "1", "-", "0", "1", "T", "0",
          "0", ":", "0", "0", ":", "0", "0", "Z">> >>, <<",">>)

ExampleNumbers == {<<"1", "0", "1">>, <<"7">>}

ExampleTypes == {<<"S", "t", "a", "n", "d", "a", "r", "d", " ", "S", "i",
                 "n", "g", "l", "e">>,
                 <<"D", "e", "l", "u", "x", "e", " ", "S", "u", "i", "t",
                 "e">>}

ExampleNames ==
  {<<"A", "i", "r", " ", "c", "o", "n", "d", "i", "t", "i", "o", "n", "i", "n", "g">>,
   <<"L", "i", "n", "e", "n">>}

ExampleLines ==
  {ExampleLine(n, t, ab[1], ab[2]) :
     n \in ExampleNumbers, t \in ExampleTypes,
     ab \in {x \in ExampleNames \X ExampleNames : x[1] # x[2]}}

\* further data rows under the export header: empty cells, no room number,
\* no room type, eight fields, ten fields, a JSON facilities cell with an
\* unparsable floor, a bracketed cell that is no JSON, a blank line
ExportDataLines ==
  ExampleLines \cup
  { <<"R", "M", "-", "2", ",", "1", "0", "2", ",", "D", "e", "l", "u",
    "x", "e", " ", "S", "u", "i", "t", "e", ",", "0", ",", ",", "L", "i",
    "n", "e", "n", ",", ",", ",">>,
    <<"R", "M", "-", "3", ",", ",", "S", "t", "a", "n", "d", "a", "r",
    "d", " ", "S", "i", "n", "g", "l", "e", ",", "1", ",", "2", ",", "L",
    "i", "n", "e", "n", ",", "a", "v", "a", "i", "l", "a", "b", "l", "e",
    ",", ",">>,
    <<"R", "M", "-", "4", ",", "1", "0", "4", ",", ",", "1", ",", "2",
    ",", "L", "i", "n", "e", "n", ",", "a", "v", "a", "i", "l", "a", "b",
    "l", "e", ",", ",">>,
    <<"R", "M", "-", "5", ",", "1", "0", "5", ",", "S", "t", "a", "n",
    "d", "a", "r", "d", " ", "S", "i", "n", "g", "l", "e", ",", "1", ",",
    "2", ",", "L", "i", "n", "e", "n", ",", "a", "v", "a", "i", "l", "a",
    "b", "l", "e", ",", "x">>,
    <<"R", "M", "-", "6", ",", "1", "0", "6", ",", "S", "t", "a", "n",
    "d", "a", "r", "d", " ", "S", "i", "n", "g", "l", "e", ",", "1", ",",
    "2", ",", "H", "o", "t", " ", "t", "u", "b", ",", " ", "S", "a", "u",
    "n", "a", ",", "a", "v", "a", "i", "l", "a", "b", "l", "e", ",", "x",
    ",", "y">>,
    <<"R", "M", "-", "7", ",", "1", "0", "7", ",", "T", "w", "i", "n",
    ",", "a", "b", "c", ",", "-", "3", ",", Q, "[", Q, Q, "L", "i", "n",
    "e", "n", Q, Q, ",", Q, Q, "F", "a", "x", Q, Q, "]", Q, ",", "c",
    "l", "o", "s", "e", "d", ",", ",">>,
    <<"R", "M", "-", "9", ",", "1", "0", "9", ",", "T", "w", "i", "n",
    ",", "2", ",", "2", ",", Q, "[", "L", "i", "n", "e", "n", ",", " ",
    "F", "a", "x", "]", Q, ",", "r", "e", "s", "e", "r", "v", "e", "d",
    ",", ",">>,
    <<" ", " ", " ">> }

\* a quoted, hyphenated header row with an id column and an unknown column
QuotedHeaderLine ==
  <<Q, "I", "D", Q, ",", Q, "R", "o", "o", "m", "-", "N", "u", "m", "b",
  "e", "r", Q, ",", Q, "R", "o", "o", "m", "-", "T", "y", "p", "e", Q,
  ",", Q, "A", "m", "e", "n", "i", "t", "i", "e", "s", Q, ",", Q, "E",
  "x", "t", "r", "a", Q>>

QuotedDataLines ==
  { <<"X", "1", ",", "7", ",", "S", "u", "i", "t", "e", ",", "L", "i",
    "n", "e", "n", ",", "z", "z">>,
    <<",", "8", ",", Q, "S", "u", "i", "t", "e", " ", Q, Q, "A", Q, Q, Q,
    ",", ",">>,
    <<"X", "3", ",", Q, Q, ",", "S", "u", "i", "t", "e", ",", "F", "a",
    "x", ";", "L", "i", "n", "e", "n", ",">>,
    <<"X", "4", ",", "9", ",", "S", "u", "i", "t", "e">>,
    <<"X", "5", ",", "1", "0", ",", "S", "u", "i", "t", "e", ",", Q, "[",
    Q, Q, "S", "e", "a", ";", " ", "v", "i", "e", "w", Q, Q, "]", Q, ",">> }

\* a two-column header row in mixed case
ShortHeaderLine ==
  <<"R", "O", "O", "M", " ", "N", "U", "M", "B", "E", "R", ",", "r", "o",
  "o", "m", " ", "t", "y", "p", "e">>

ShortDataLines ==
  { <<"5", ",", "S", "i", "n", "g", "l", "e">>,
    <<" ", "6", " ", ",", " ", "D", "o", "u", "b", "l", "e", " ">>,
    <<",">>,
    <<Q, "7", ",", "5", Q, ",", "T", "w", "i", "n">> }

\* a header row with padded cells, mixed case, the underscore names, a
\* column that is not recognized and a cell that keeps one layer of quotes
\* after the line is split
PaddedHeaderLine ==
  <<" ", "R", "o", "o", "m", "-", "T", "y", "p", "e", " ", ",", "R", "O",
    "O", "M", "-", "N", "U", "M", "B", "E", "R", ",", "C", "r", "e", "a",
    "t", "e", "d", "_", "A", "t", ",", "u", "p", "d", "a", "t", "e", "d",
    "_", "a", "t", ",", " ", "S", "t", "a", "t", "u", "s", " ", ",", "P",
    "r", "i", "c", "e", ",", Q, Q, Q, "C", "a", "p", "a", "c", "i", "t",
    "y", Q, Q, Q>>

PaddedDataLines ==
  { <<"T", "w", "i", "n", ",", "1", "2", ",", "2", "0", "2", "4", "-",
      "0", "5", "-", "0", "1", ",", ",", "c", "l", "o", "s", "e", "d",
      ",", "9", "0", ",", "3">>,
    <<"T", "w", "i", "n", ",", "1", "3", ",", ",", "2", "0", "2", "4",
      "-", "0", "6", "-", "0", "1", ",", ",", "x", ",">> }

\* the texts of an uploaded file: a header row and at most MaxDataLines rows
TextsUnder(header, dataLines) ==
  {Join(<<header>> \o ls, <<NL>>) : ls \in SeqsUpTo(dataLines, MaxDataLines)}

\* the characters of the arbitrary short texts drawn
CsvChars == {",", Q, NL, "a", " "}

UploadTexts ==
  TextsUnder(ExportHeaderLine, ExportDataLines)
    \cup TextsUnder(QuotedHeaderLine, QuotedDataLines)
    \cup TextsUnder(ShortHeaderLine, ShortDataLines)
    \cup TextsUnder(PaddedHeaderLine, PaddedDataLines)
    \cup SeqsUpTo(CsvChars, MaxCsvLen)


(***************************************************************************)
(* The rooms import endpoint (POST) and the rooms table it inserts into.   *)
(* A stored row has the columns the route writes, and the id and           *)
(* created_at the database assigns.                                        *)
(***************************************************************************)
\* the outcomes of auth() and of the organization lookup
AuthOutcomes == {"signed out", "no organization", "not a hotel", "hotel"}

\* a response of the route: ok is response.ok, message the error member of
\* its body (empty when the body has none)
NoResponse == [present |-> FALSE, ok |-> FALSE, message |-> ""]
ErrorResponse(m) == [present |-> TRUE, ok |-> FALSE, message |-> m]
SuccessResponse == [present |-> TRUE, ok |-> TRUE, message |-> ""]

\* a request to the route: its sender ("upload" for handleImportCSV,
\* "client" for any other caller) and its body; a body is malformed (not
\* JSON), or has a rooms member that is a list or something else
ListRequest(sender, rs) == [from |-> sender, body |-> "list", rooms |-> rs]
OtherRequest(sender, kind) == [from |-> sender, body |-> kind, rooms |-> <<>>]

\* the room number the route stores: parseInt of the string it is given
RoomNumberInt(roomNumber) == ParseInt(roomNumber)

\* insertData of one submitted room: the id it carries is not copied
InsertData(room) ==
  [ roomNumber |-> RoomNumberInt(room.roomNumber),
    roomType |-> room.roomType,
    floor |-> IF room.floor # 0 THEN room.floor ELSE 0,
    capacity |-> IF room.capacity # 0 THEN room.capacity ELSE 1,
    status |-> IF room.status # <<>> THEN room.status
               ELSE <<"a", "v", "a", "i", "l", "a", "b", "l", "e">>,
    amenities |-> ImportAmenitiesArray(room.facilities) ]

\* the id the database gives the k-th row inserted into a table
AssignedId(table, k) == NatToStr(Len(table) + k)

\* supabase.from("rooms").insert(rows): the rows are appended, each with
\* the id and created_at the database assigns
SupabaseInsert(table, rows) ==
  table \o [k \in 1..Len(rows) |->
              [ id |-> AssignedId(table, k),
                roomNumber |-> rows[k].roomNumber,
                roomType |-> rows[k].roomType,
                floor |-> rows[k].floor,
                capacity |-> rows[k].capacity,
                status |-> rows[k].status,
                amenities |-> rows[k].amenities,
                createdAt |-> NowIso ]]

\* an upsert on the id a submitted room carries: a stored row with that id
\* takes the room's columns, and only a room without such a row is inserted
RECURSIVE C13_UpsertById(_, _)
C13_UpsertById(table, submitted) ==
  IF submitted = <<>> THEN table
  ELSE LET room == Head(submitted)
           hit == {i \in 1..Len(table) : table[i].id = room.id}
           data == InsertData(room)
       IN C13_UpsertById(
            IF hit = {} THEN SupabaseInsert(table, <<data>>)
            ELSE [i \in 1..Len(table) |->
                    IF i \in hit
                      THEN [table[i] EXCEPT !.roomNumber = data.roomNumber,
                                            !.roomType = data.roomType,
                                            !.floor = data.floor,
                                            !.capacity = data.capacity,
                                            !.status = data.status,
                                            !.amenities = data.amenities]
                      ELSE table[i]],
            Tail(submitted))

\* the table after the insert of the submitted rooms
ImportedTable(table, submitted) ==
  SupabaseInsert(table, MapSeq(InsertData, submitted))

\* the route from its first line to its response, on a table: the guards,
\* the insert (which the database may refuse) and the outer catch
ImportRoute(auth, req, refused, table) ==
  IF auth = "signed out"
    THEN [table |-> table, response |-> ErrorResponse("Unauthorized")]
  ELSE IF auth = "no organization"
    THEN [table |-> table, response |-> ErrorResponse("Organization ID required")]
  ELSE IF auth = "not a hotel"
    THEN [table |-> table,
          response |-> ErrorResponse("Only hotel organizations can import rooms")]
  ELSE IF req.body = "malformed"
    THEN [table |-> table, response |-> ErrorResponse("Failed to import rooms")]
  ELSE IF req.body # "list" \/ Len(req.rooms) = 0
    THEN [table |-> table, response |-> ErrorResponse("Invalid rooms data")]
  ELSE IF refused
    THEN [table |-> table, response |-> ErrorResponse("<database error>")]
  ELSE [table |-> ImportedTable(table, req.rooms), response |-> SuccessResponse]

\* the HotelRoom the rooms routes return for a stored row
MapDbRowToRoom(row) ==
  [ id |-> row.id,
    roomNumber |-> IF row.roomNumber.nan THEN <<>> ELSE IntToStr(row.roomNumber.n),
    roomType |-> row.roomType,
    floor |-> row.floor,
    capacity |-> row.capacity,
    pricePerNight |-> 0,
    facilities |-> MapDbRowFacilities(JsString(row.amenities)).value,
    status |-> IF row.status # <<>> THEN row.status
               ELSE <<"a", "v", "a", "i", "l", "a", "b", "l", "e">>,
    createdAt |-> IF row.createdAt # <<>> THEN row.createdAt ELSE NowIso,
    updatedAt |-> IF row.createdAt # <<>> THEN row.createdAt ELSE NowIso ]

\* .order("created_at", { ascending: false }): the newest row first
NewestFirst(table) == [k \in 1..Len(table) |-> table[Len(table) + 1 - k]]

(***************************************************************************)
(* The upload flow of HotelRoomsTable: the component's error and           *)
(* importing state.                                                        *)
(***************************************************************************)
NoError == [set |-> FALSE, message |-> ""]

\* the value of the file input: empty, or the file chosen
NoFile == ""
ChosenFile == "rooms.csv"
ErrorSet(m) == [set |-> TRUE, message |-> m]

\* the empty result not told apart
C14_NeverEmpty(parsedRooms) == FALSE

\* if (parsedRooms.length === 0) throw ...
NoValidRooms(parsedRooms) == Len(parsedRooms) = 0

\* errorData.error || "Failed to import rooms"
ImportErrorMessage(resp) ==
  IF resp.message # "" THEN resp.message ELSE "Failed to import rooms"

\* importing and error after the first lines of handleImportCSV: untouched
\* without a file, else setImporting(true) and setError(null)
ImportStarted(file, wasImporting, lastError) ==
  IF file = NoFile THEN [importing |-> wasImporting, error |-> lastError]
  ELSE [importing |-> TRUE, error |-> NoError]

\* the flag left set by the finally block
C30_StillImporting == TRUE

\* the finally block: setImporting(false), and the file input emptied (or
\* unmounted with the table, its next instance empty)
ImportingAfterFinally == FALSE
FileInputAfterFinally == NoFile

\* the state of the import machine while the codec and the transcoder run
ImportIdle ==
  /\ db = <<>>
  /\ importing = FALSE
  /\ error = NoError
  /\ requests = {}
  /\ response = NoResponse
  /\ posted = FALSE
  /\ fileInput = NoFile

(***************************************************************************)
(* The room create endpoint (POST /api/rooms): its guards, the direct      *)
(* insert and the REST fallback.                                           *)
(***************************************************************************)
\* the outcomes of auth() and of the organization lookup, which may throw
CreateAuthOutcomes == AuthOutcomes \cup {"lookup fails"}

\* the roomNumber member of a request body: a string, a number, true, an
\* object, or absent
RoomNumberString(s) == [type |-> "string", text |-> s, n |-> 0]
RoomNumberNumber(k) == [type |-> "number", text |-> <<>>, n |-> k]
RoomNumberTrue == [type |-> "boolean", text |-> <<>>, n |-> 1]
RoomNumberObject == [type |-> "object", text |-> <<>>, n |-> 0]
RoomNumberAbsent == [type |-> "undefined", text |-> <<>>, n |-> 0]

\* !roomNumber
RoomNumberFalsy(roomNumber) ==
  \/ roomNumber.type = "undefined"
  \/ roomNumber.type = "string" /\ roomNumber.text = <<>>
  \/ roomNumber.type = "number" /\ roomNumber.n = 0

\* typeof roomNumber === "string" ? parseInt(roomNumber, 10) : roomNumber,
\* as [nan, n]: nan is what isNaN answers for it, n its numeric value
CreateRoomNumberInt(roomNumber) ==
  IF roomNumber.type = "string" THEN ParseInt(roomNumber.text)
  ELSE IF roomNumber.type = "object" THEN [nan |-> TRUE, n |-> 0]
  ELSE [nan |-> FALSE, n |-> roomNumber.n]

\* a response of the route: its status, the error, code and details members
\* of its body (empty when absent) and its room member (at most one)
NoCreateResponse ==
  [status |-> 0, error |-> "", code |-> "", details |-> "", room |-> <<>>]
CreateRefusal(status, message) ==
  [status |-> status, error |-> message, code |-> "", details |-> "",
   room |-> <<>>]
CreateFailure(message, err) ==
  [status |-> 500, error |-> message, code |-> err.code,
   details |-> err.message, room |-> <<>>]
CreateSuccess(newRoom) ==
  [status |-> 201, error |-> "", code |-> "", details |-> "",
   room |-> <<newRoom>>]

\* the guards on the body answered before those on the caller
C26_BodyBeforeCaller(auth, body) ==
  IF body.readable /\ (RoomNumberFalsy(body.roomNumber) \/ body.roomType = <<>>)
    THEN CreateRefusal(400, "Room number and room type are required")
  ELSE IF body.readable /\ CreateRoomNumberInt(body.roomNumber).nan
    THEN CreateRefusal(400, "Room number must be a valid number")
  ELSE IF auth = "signed out" THEN CreateRefusal(401, "Unauthorized")
  ELSE IF auth = "no organization"
    THEN CreateRefusal(400, "Organization ID required")
  ELSE IF auth = "lookup fails" THEN CreateRefusal(500, "Failed to create room")
  ELSE IF auth = "not a hotel"
    THEN CreateRefusal(403, "Only hotel organizations can create rooms")
  ELSE IF ~body.readable THEN CreateRefusal(500, "Failed to create room")
  ELSE NoCreateResponse

\* the answer of the guards in the order of the route, or no response when
\* all pass; the lookup and request.json() throw into the outer catch
CreateGuards(auth, body) ==
  IF auth = "signed out" THEN CreateRefusal(401, "Unauthorized")
  ELSE IF auth = "no organization"
    THEN CreateRefusal(400, "Organization ID required")
  ELSE IF auth = "lookup fails" THEN CreateRefusal(500, "Failed to create room")
  ELSE IF auth = "not a hotel"
    THEN CreateRefusal(403, "Only hotel organizations can create rooms")
  ELSE IF ~body.readable THEN CreateRefusal(500, "Failed to create room")
  ELSE IF RoomNumberFalsy(body.roomNumber) \/ body.roomType = <<>>
    THEN CreateRefusal(400, "Room number and room type are required")
  ELSE IF CreateRoomNumberInt(body.roomNumber).nan
    THEN CreateRefusal(400, "Room number must be a valid number")
  ELSE NoCreateResponse

\* f.replace throws for an element of facilities that is no string
EncoderThrows(fac) == fac.kind = "array_other"

\* insertData of the route
CreateInsertData(body) ==
  [ roomNumber |-> CreateRoomNumberInt(body.roomNumber),
    roomType |-> body.roomType,
    floor |-> IF body.floor # 0 THEN body.floor ELSE 1,
    capacity |-> IF body.capacity # 0 THEN body.capacity ELSE 1,
    status |-> IF body.status # <<>> THEN body.status
               ELSE <<"a", "v", "a", "i", "l", "a", "b", "l", "e">>,
    amenities |-> CreateAmenitiesArray(body.facilities) ]

\* the row an insert returns: insertData with the id and created_at the
\* database assigns
InsertedRow(body) == SupabaseInsert(<<>>, <<CreateInsertData(body)>>)[1]

\* { data, error } of the route: data a row or none, error null or an error
\* with its code and message
NoInsertError == [set |-> FALSE, code |-> "", message |-> ""]
InsertError(code, message) == [set |-> TRUE, code |-> code, message |-> message]
NoInsertResult == [data |-> <<>>, error |-> NoInsertError]

\* the codes after which the REST insert is tried
FallbackCodes == {"PGRST204", "PGRST202", "22P02"}

\* the REST insert tried after any error
C27_AnyError(err) == TRUE

\* shouldUseFallback
ShouldUseFallback(err) == err.code \in FallbackCodes

\* the error after a REST response that is not ok
RestError(originalError) ==
  InsertError(IF originalError.code # "" THEN originalError.code ELSE "PGRST204",
              "REST API insert failed: <error text>")

\* the 500 response for an error left after the inserts
CreateErrorResponse(err) ==
  IF err.code \in {"PGRST204", "PGRST202"}
    THEN CreateFailure("PostgREST cannot find columns with hyphenated names.", err)
  ELSE IF err.code = "22P02"
    THEN CreateFailure("PostgreSQL array parsing error.", err)
  ELSE IF err.code = "42501"
    THEN CreateFailure("Row-Level Security policy violation.", err)
  ELSE CreateRefusal(500, IF err.message # "" THEN err.message
                          ELSE "Failed to create room")

\* the calls to the database of one request, in order: the direct insert
\* and the REST insert, each with its outcome once it has returned
DirectCall(outcome, code) == [to |-> "direct", outcome |-> outcome, code |-> code]
RestCall(outcome) == [to |-> "rest", outcome |-> outcome, code |-> ""]

\* the request before any is received
NoCreateBody ==
  [ readable |-> FALSE, roomNumber |-> RoomNumberAbsent, roomType |-> <<>>,
    floor |-> 0, capacity |-> 0, facilities |-> JsUndefined, status |-> <<>> ]
NoCreateInput == [auth |-> "signed out", configured |-> FALSE, body |-> NoCreateBody]

CreateIdle ==
  /\ createPc = "none"
  /\ createInput = NoCreateInput
  /\ calls = <<>>
  /\ insertResult = NoInsertResult
  /\ createResponse = NoCreateResponse

(***************************************************************************)
(* The offers tables (agency and hotel) and the offer details dialog.  An  *)
(* offer is its id and its status; its other members take no part in the   *)
(* handlers modelled.                                                      *)
(***************************************************************************)
OfferStatuses == {"pending", "active", "canceled", "completed"}

\* String(n).padStart(3, "0")
PadStart3(s) ==
  IF Len(s) >= 3 THEN s ELSE [i \in 1..(3 - Len(s)) |-> "0"] \o s

\* `OFF-${String(n).padStart(3, "0")}`
OfferId(n) == <<"O", "F", "F", "-">> \o PadStart3(NatToStr(n))

Offer(id, status) == [id |-> id, status |-> status]

\* mockOffers of the agency table and of the hotel tables
AgencyMockOffers ==
  << Offer(<<"O", "F", "F", "-", "0", "0", "1">>, "active"),
     Offer(<<"O", "F", "F", "-", "0", "0", "2">>, "pending"),
     Offer(<<"O", "F", "F", "-", "0", "0", "3">>, "completed"),
     Offer(<<"O", "F", "F", "-", "0", "0", "4">>, "canceled") >>

HotelMockOffers ==
  << Offer(<<"O", "F", "F", "-", "0", "0", "1">>, "active"),
     Offer(<<"O", "F", "F", "-", "0", "0", "2">>, "pending") >>

\* selectedOffer null
NoOffer == Offer(<<>>, "none")

\* handleCreateOffer: setOffers([...offers, newOffer])
CreatedOffers(list, status) ==
  Append(list, Offer(OfferId(Len(list) + 1), status))

\* handleDeleteOffer: offers.filter((offer) => offer.id !== offerId)
RemainingOffers(list, offerId) ==
  LET keep == {i \in 1..Len(list) : list[i].id # offerId}
      Kept[k \in 0..Len(list)] ==
        IF k = 0 THEN <<>>
        ELSE IF k \in keep THEN Append(Kept[k - 1], list[k]) ELSE Kept[k - 1]
  IN Kept[Len(list)]

\* handleStatusChange of the table: offers.map(...)
RestatedOffers(list, offerId, newStatus) ==
  [i \in 1..Len(list) |->
     IF list[i].id = offerId THEN Offer(list[i].id, newStatus) ELSE list[i]]

\* a button for every status but the displayed one
C29_EveryStatusOffered(displayed) ==
  IF displayed = "none" THEN {} ELSE OfferStatuses \ {displayed}

\* the statuses of the buttons the dialog renders under a displayed status
StatusButtons(displayed) ==
  IF displayed = "pending" THEN {"active", "completed", "canceled"}
  ELSE IF displayed = "active" THEN {"completed", "canceled"}
  ELSE {}

\* if (newStatus === currentStatus || isUpdatingStatus) return
StatusChangeIgnored(newStatus, displayed, updating) ==
  newStatus = displayed \/ updating

OffersIdle ==
  /\ offers = <<>>
  /\ selectedOffer = NoOffer
  /\ isDetailsDialogOpen = FALSE
  /\ currentStatus = "none"
  /\ isUpdatingStatus = FALSE
  /\ statusRequest = "none"

(***************************************************************************)
(* The codec as a state machine: a request's facilities are encoded by one *)
(* of the three routes and stored; a stored row is read back by            *)
(* mapDbRowToHotelRoom.  Rows may also hold a native list, nothing, a      *)
(* JSON text or any other string.                                          *)
(***************************************************************************)
CsvIdle == rooms = <<>> /\ csvText = <<>> /\ parsed = NoParse

InitRequest ==
  /\ pc = "request"
  /\ route = "none"
  /\ facilities \in FacilityValues
  /\ amenities = JsUndefined
  /\ decoded = NoResult
  /\ CsvIdle
  /\ ImportIdle
  /\ CreateIdle
  /\ OffersIdle

InitJsonRow ==
  /\ pc = "stored"
  /\ route = "json"
  /\ facilities \in {JsArray(l) : l \in FacilityLists}
  /\ amenities = JsString(JsonArrayText(facilities.items))
  /\ decoded = NoResult
  /\ CsvIdle
  /\ ImportIdle
  /\ CreateIdle
  /\ OffersIdle

InitRow ==
  /\ pc = "stored"
  /\ route = "row"
  /\ facilities = JsUndefined
  /\ amenities \in {JsUndefined} \cup {JsArray(l) : l \in FacilityLists}
                    \cup {JsString(s) : s \in RawStrings}
  /\ decoded = NoResult
  /\ CsvIdle
  /\ ImportIdle
  /\ CreateIdle
  /\ OffersIdle

EncodeCreate ==
  /\ pc = "request"
  /\ amenities' = JsString(CreateAmenitiesArray(facilities))
  /\ route' = "create"
  /\ pc' = "stored"
  /\ UNCHANGED <<facilities, decoded, rooms, csvText, parsed>>
  /\ UNCHANGED <<importVars, createVars, offerVars>>

EncodeImport ==
  /\ pc = "request"
  /\ amenities' = JsString(ImportAmenitiesArray(facilities))
  /\ route' = "import"
  /\ pc' = "stored"
  /\ UNCHANGED <<facilities, decoded, rooms, csvText, parsed>>
  /\ UNCHANGED <<importVars, createVars, offerVars>>

EncodeSeed ==
  /\ pc = "request"
  /\ facilities.kind = "array"
  /\ amenities' = JsString(SeedAmenities(facilities.items))
  /\ route' = "seed"
  /\ pc' = "stored"
  /\ UNCHANGED <<facilities, decoded, rooms, csvText, parsed>>
  /\ UNCHANGED <<importVars, createVars, offerVars>>

MapDbRowToHotelRoom ==
  /\ pc = "stored"
  /\ decoded' = MapDbRowFacilities(amenities)
  /\ pc' = "mapped"
  /\ UNCHANGED <<route, facilities, amenities, rooms, csvText, parsed>>
  /\ UNCHANGED <<importVars, createVars, offerVars>>

(***************************************************************************)
(* The transcoder as a state machine: a list of rooms is exported by       *)
(* convertToCSV, and a text (an export, or the text of an uploaded file)   *)
(* is parsed by parseCSV.                                                  *)
(***************************************************************************)
CodecIdle ==
  facilities = JsUndefined /\ amenities = JsUndefined /\ decoded = NoResult

InitRooms ==
  /\ pc = "rooms"
  /\ route = "none"
  /\ rooms \in SeqsUpTo(SampleRooms, MaxRooms)
  /\ csvText = <<>>
  /\ parsed = NoParse
  /\ CodecIdle
  /\ ImportIdle
  /\ CreateIdle
  /\ OffersIdle

InitUpload ==
  /\ pc = "text"
  /\ route = "upload"
  /\ rooms = <<>>
  /\ csvText \in UploadTexts
  /\ parsed = NoParse
  /\ CodecIdle
  /\ ImportIdle
  /\ CreateIdle
  /\ OffersIdle

ExportCSV ==
  /\ pc = "rooms"
  /\ csvText' = ConvertToCSV(rooms)
  /\ route' = "export"
  /\ pc' = "text"
  /\ UNCHANGED <<facilities, amenities, decoded, rooms, parsed>>
  /\ UNCHANGED <<importVars, createVars, offerVars>>

ParseUpload ==
  /\ pc = "text"
  /\ parsed' = ParseCSV(csvText)
  /\ pc' = "parsed"
  /\ UNCHANGED <<route, facilities, amenities, decoded, rooms, csvText>>
  /\ UNCHANGED <<importVars, createVars, offerVars>>

Init == InitRequest \/ InitJsonRow \/ InitRow \/ InitRooms \/ InitUpload

Next ==
  \/ EncodeCreate \/ EncodeImport \/ EncodeSeed \/ MapDbRowToHotelRoom
  \/ ExportCSV \/ ParseUpload

Spec == Init /\ [][Next]_vars

(***************************************************************************)
(* The import endpoint and the upload flow as a state machine.  The        *)
(* requests in flight are a set; the route handles one at a time, and its  *)
(* response to the upload flow is kept until handleImportCSV resumes.      *)
(* pc is the position of handleImportCSV: "idle" before any file,          *)
(* "reading" at await file.text(), "posting" at await fetch(...),          *)
(* "refreshing" at await fetchRooms(), "settled" after its finally block.  *)
(***************************************************************************)
\* a row stored before any import
SeededRow ==
  [ id |-> <<"1">>,
    roomNumber |-> [nan |-> FALSE, n |-> 101],
    roomType |-> <<"S", "u", "i", "t", "e">>,
    floor |-> 1, capacity |-> 2,
    status |-> <<"o", "c", "c", "u", "p", "i", "e", "d">>,
    amenities |-> <<"{", Q, "F", "a", "x", Q, "}">>,
    createdAt |-> <<"2", "0", "2", "4", "-", "0", "1", "-", "0", "1">> ]

InitialTables == {<<>>, <<SeededRow>>}

\* a header row with an id column
IdHeaderLine ==
  <<"i", "d", ",", "r", "o", "o", "m", " ", "n", "u", "m", "b", "e", "r",
  ",", "r", "o", "o", "m", " ", "t", "y", "p", "e", ",", "f", "l", "o",
  "o", "r">>

\* the files chosen for upload: an empty file, a header row alone, a row
\* without room type, two good rows, a room number that is no number, and
\* rows carrying the id of a stored row
ImportFiles ==
  { <<>>,
    ExportHeaderLine,
    Join(<<ShortHeaderLine, <<"5", ",">> >>, <<NL>>),
    Join(<<ShortHeaderLine, <<"5", ",", "S", "i", "n", "g", "l", "e">>,
           <<"6", ",", "T", "w", "i", "n">> >>, <<NL>>),
    Join(<<ShortHeaderLine, <<"x", ",", "T", "w", "i", "n">> >>, <<NL>>),
    Join(<<IdHeaderLine, <<"1", ",", "7", ",", "T", "w", "i", "n", ",", "0">> >>,
         <<NL>>),
    Join(<<IdHeaderLine, <<"1", ",", "7", ",", "T", "w", "i", "n", ",", "0">>,
           <<"2", ",", "8", ",", "T", "w", "i", "n", ",", "3">> >>, <<NL>>) }

\* a room another caller submits: it carries the id of a stored row
ClientRoom ==
  [ id |-> <<"1">>, roomNumber |-> <<"1", "0", "1">>,
    roomType |-> <<"S", "u", "i", "t", "e">>, floor |-> 2, capacity |-> 0,
    pricePerNight |-> 0,
    facilities |-> JsArray(<< <<"L", "i", "n", "e", "n">> >>),
    status |-> <<>>, createdAt |-> NowIso, updatedAt |-> NowIso ]

\* the requests of other callers
ClientRequests ==
  { OtherRequest("client", "malformed"),
    OtherRequest("client", "no list"),
    ListRequest("client", <<>>),
    ListRequest("client", <<ClientRoom>>),
    ListRequest("client", <<ClientRoom, ClientRoom>>) }

ImportInit ==
  /\ pc = "idle"
  /\ route = "none"
  /\ CodecIdle
  /\ CsvIdle
  /\ db \in InitialTables
  /\ importing = FALSE
  /\ error = NoError
  /\ requests = {}
  /\ response = NoResponse
  /\ posted = FALSE
  /\ fileInput = NoFile
  /\ CreateIdle
  /\ OffersIdle

\* handleImportCSV from the change event to await file.text(); the button
\* that opens the file input is disabled while importing, and neither is
\* rendered while an error is shown
ChooseFile ==
  /\ pc \in {"idle", "settled"}
  /\ ~importing
  /\ ~error.set
  /\ Len(db) < MaxStored
  /\ \E text \in ImportFiles : csvText' = text
  /\ importing' = ImportStarted(ChosenFile, importing, error).importing
  /\ error' = ImportStarted(ChosenFile, importing, error).error
  /\ fileInput' = ChosenFile
  /\ parsed' = NoParse
  /\ posted' = FALSE
  /\ pc' = "reading"
  /\ UNCHANGED <<codecVars, rooms, db, requests, response>>
  /\ UNCHANGED <<createVars, offerVars>>

\* the change event without a file: if (!file) return
ChooseNoFile ==
  /\ pc \in {"idle", "settled"}
  /\ ~importing
  /\ ~error.set
  /\ importing' = ImportStarted(NoFile, importing, error).importing
  /\ error' = ImportStarted(NoFile, importing, error).error
  /\ fileInput' = NoFile
  /\ UNCHANGED <<pc, codecVars, rooms, csvText, parsed, db, requests, response,
                 posted>>
  /\ UNCHANGED <<createVars, offerVars>>

\* file.text() rejects: the catch and the finally block
FileReadFails ==
  /\ pc = "reading"
  /\ error' = ErrorSet("<read error>")
  /\ importing' = ImportingAfterFinally
  /\ fileInput' = FileInputAfterFinally
  /\ pc' = "settled"
  /\ UNCHANGED <<codecVars, rooms, csvText, parsed, db, requests, response, posted>>
  /\ UNCHANGED <<createVars, offerVars>>

\* handleImportCSV from the text of the file to await fetch(...), or to the
\* end of its finally block when nothing is sent
ParseChosenFile ==
  /\ pc = "reading"
  /\ LET result == ParseCSV(csvText) IN
       /\ parsed' = result
       /\ IF result.threw
            THEN /\ error' = ErrorSet("<type error>")
                 /\ importing' = ImportingAfterFinally
                 /\ fileInput' = FileInputAfterFinally
                 /\ pc' = "settled"
                 /\ UNCHANGED <<requests, posted>>
          ELSE IF NoValidRooms(result.rooms)
            THEN /\ error' = ErrorSet("No valid room data found in CSV file")
                 /\ importing' = ImportingAfterFinally
                 /\ fileInput' = FileInputAfterFinally
                 /\ pc' = "settled"
                 /\ UNCHANGED <<requests, posted>>
          ELSE /\ requests' = requests \cup {ListRequest("upload", result.rooms)}
               /\ posted' = TRUE
               /\ pc' = "posting"
               /\ UNCHANGED <<error, importing, fileInput>>
  /\ UNCHANGED <<codecVars, rooms, csvText, db, response>>
  /\ UNCHANGED <<createVars, offerVars>>

\* another caller posts to the route
ClientPosts ==
  /\ Len(db) < MaxStored
  /\ Cardinality(requests) < MaxInFlight
  /\ \E req \in ClientRequests : requests' = requests \cup {req}
  /\ UNCHANGED <<pc, codecVars, rooms, csvText, parsed, db, importing, error,
                 response, posted, fileInput>>
  /\ UNCHANGED <<createVars, offerVars>>

\* POST of the import route on one request in flight
ImportRooms ==
  \E req \in requests, auth \in AuthOutcomes, refused \in BOOLEAN :
    LET out == ImportRoute(auth, req, refused, db) IN
      /\ db' = out.table
      /\ requests' = requests \ {req}
      /\ response' = IF req.from = "upload" THEN out.response ELSE response
      /\ UNCHANGED <<pc, codecVars, rooms, csvText, parsed, importing, error,
                     posted, fileInput>>
      /\ UNCHANGED <<createVars, offerVars>>

\* fetch(...) rejects, the request lost: the catch and the finally block
FetchRejects ==
  /\ pc = "posting"
  /\ \E req \in requests :
       /\ req.from = "upload"
       /\ requests' = requests \ {req}
  /\ error' = ErrorSet("<network error>")
  /\ importing' = ImportingAfterFinally
  /\ fileInput' = FileInputAfterFinally
  /\ pc' = "settled"
  /\ UNCHANGED <<codecVars, rooms, csvText, parsed, db, response, posted>>
  /\ UNCHANGED <<createVars, offerVars>>

\* handleImportCSV from the response to await fetchRooms(), or through the
\* catch and the finally block when the response is not ok
ReceiveResponse ==
  /\ pc = "posting"
  /\ response.present
  /\ response' = NoResponse
  /\ IF response.ok
       THEN /\ pc' = "refreshing"
            /\ UNCHANGED <<error, importing, fileInput>>
       ELSE /\ error' = ErrorSet(ImportErrorMessage(response))
            /\ importing' = ImportingAfterFinally
            /\ fileInput' = FileInputAfterFinally
            /\ pc' = "settled"
  /\ UNCHANGED <<codecVars, rooms, csvText, parsed, db, requests, posted>>
  /\ UNCHANGED <<createVars, offerVars>>

\* fetchRooms(), which catches its own failure, and the finally block of
\* handleImportCSV
FetchRooms ==
  /\ pc = "refreshing"
  /\ \E fetched \in BOOLEAN :
       IF fetched
         THEN /\ rooms' = MapSeq(MapDbRowToRoom, NewestFirst(db))
              /\ error' = NoError
         ELSE /\ error' = ErrorSet("Failed to fetch rooms")
              /\ UNCHANGED rooms
  /\ importing' = ImportingAfterFinally
  /\ fileInput' = FileInputAfterFinally
  /\ pc' = "settled"
  /\ UNCHANGED <<codecVars, csvText, parsed, db, requests, response, posted>>
  /\ UNCHANGED <<createVars, offerVars>>

ImportNext ==
  \/ ChooseFile \/ ChooseNoFile \/ FileReadFails \/ ParseChosenFile \/ ClientPosts
  \/ ImportRooms \/ FetchRejects \/ ReceiveResponse \/ FetchRooms

ImportSpec == ImportInit /\ [][ImportNext]_vars

\* the request of the upload is answered by the route
UploadAnswered ==
  /\ \E req \in requests : req.from = "upload" /\ requests' = requests \ {req}
  /\ ImportRooms

\* every promise handleImportCSV awaits settles: file.text(), fetch(...) of
\* the import (answered or rejected), response.json() and fetchRooms()
ImportFairness ==
  /\ WF_vars(FileReadFails \/ ParseChosenFile)
  /\ WF_vars(UploadAnswered \/ FetchRejects)
  /\ WF_vars(ReceiveResponse)
  /\ WF_vars(FetchRooms)

ImportLiveSpec == ImportInit /\ [][ImportNext]_vars /\ ImportFairness

(***************************************************************************)
(* The room create endpoint as a state machine: one request from its first *)
(* line to its response, through the awaits of the direct insert and of    *)
(* the REST insert.                                                        *)
(***************************************************************************)
\* the roomNumber members drawn: absent, empty, a number in digits, no
\* number, digits before a letter, the numbers 0 and 7, true and an object
CreateRoomNumbers ==
  { RoomNumberAbsent,
    RoomNumberString(<<>>),
    RoomNumberString(<<"1", "0", "1">>),
    RoomNumberString(<<"a", "b", "c">>),
    RoomNumberString(<<"1", "2", "a">>),
    RoomNumberNumber(0),
    RoomNumberNumber(7),
    RoomNumberTrue,
    RoomNumberObject }

\* the request bodies drawn: one that is no JSON, and the readable ones
CreateBodies ==
  {NoCreateBody}
    \cup { [ readable |-> TRUE, roomNumber |-> rn, roomType |-> rt,
             floor |-> fl, capacity |-> 0, facilities |-> fac,
             status |-> <<>> ] :
             rn \in CreateRoomNumbers,
             rt \in {<<>>, <<"S", "u", "i", "t", "e">>},
             fl \in {0, 2},
             fac \in {JsUndefined, JsArray(<< <<"L", "i", "n", "e", "n">> >>),
                      JsArrayOther} }

\* a request with its environment: the outcome of auth() and whether
\* NEXT_PUBLIC_SUPABASE_URL and NEXT_PUBLIC_SUPABASE_ANON_KEY are set
CreateInputs ==
  { [auth |-> a, configured |-> c, body |-> b] :
      a \in CreateAuthOutcomes, c \in BOOLEAN, b \in CreateBodies }

\* the errors a direct insert may return: the three codes of the fallback,
\* a policy violation, a duplicate key, and an error without code or message
InsertErrors ==
  { InsertError(c, "<database error>") :
      c \in FallbackCodes \cup {"42501", "23505"} }
    \cup {InsertError("", "")}

CreateInit ==
  /\ pc = "idle"
  /\ route = "none"
  /\ CodecIdle
  /\ CsvIdle
  /\ ImportIdle
  /\ OffersIdle
  /\ createPc = "received"
  /\ createInput \in CreateInputs
  /\ calls = <<>>
  /\ insertResult = NoInsertResult
  /\ createResponse = NoCreateResponse

\* POST from its first line to await ...insert(insertData), or to the
\* response of a guard or of the outer catch
PostReceived ==
  /\ createPc = "received"
  /\ LET answer == CreateGuards(createInput.auth, createInput.body) IN
       IF answer # NoCreateResponse
         THEN /\ createResponse' = answer
              /\ createPc' = "responded"
              /\ UNCHANGED calls
       ELSE IF EncoderThrows(createInput.body.facilities)
         THEN /\ createResponse' = CreateRefusal(500, "Failed to create room")
              /\ createPc' = "responded"
              /\ UNCHANGED calls
       ELSE /\ calls' = <<DirectCall("pending", "")>>
            /\ createPc' = "inserting"
            /\ UNCHANGED createResponse
  /\ UNCHANGED <<createInput, insertResult>>
  /\ UNCHANGED <<pc, codecVars, rooms, csvText, parsed, importVars, offerVars>>

\* the direct insert returns a row: the 201 response
DirectInsertSucceeds ==
  /\ createPc = "inserting"
  /\ calls' = <<DirectCall("ok", "")>>
  /\ insertResult' = [data |-> <<InsertedRow(createInput.body)>>,
                      error |-> NoInsertError]
  /\ createResponse' = CreateSuccess(MapDbRowToRoom(InsertedRow(createInput.body)))
  /\ createPc' = "responded"
  /\ UNCHANGED createInput
  /\ UNCHANGED <<pc, codecVars, rooms, csvText, parsed, importVars, offerVars>>

\* the direct insert returns an error: POST goes on to await fetch(...) of
\* the REST insert, or to its 500 response
DirectInsertFails ==
  /\ createPc = "inserting"
  /\ \E err \in InsertErrors :
       /\ insertResult' = [data |-> <<>>, error |-> err]
       /\ IF ShouldUseFallback(err) /\ createInput.configured
            THEN /\ calls' = <<DirectCall("error", err.code), RestCall("pending")>>
                 /\ createPc' = "fallback"
                 /\ UNCHANGED createResponse
            ELSE /\ calls' = <<DirectCall("error", err.code)>>
                 /\ createResponse' = CreateErrorResponse(err)
                 /\ createPc' = "responded"
  /\ UNCHANGED createInput
  /\ UNCHANGED <<pc, codecVars, rooms, csvText, parsed, importVars, offerVars>>

\* the REST insert answers: ok with the inserted row, not ok, or fetch (or
\* the reading of the answer) throws into the inner catch
RestInsertReturns ==
  /\ createPc = "fallback"
  /\ \E outcome \in {"ok", "not ok", "throws"} :
       /\ calls' = <<calls[1], RestCall(outcome)>>
       /\ insertResult' =
            IF outcome = "ok"
              THEN [data |-> <<InsertedRow(createInput.body)>>,
                    error |-> NoInsertError]
            ELSE IF outcome = "not ok"
              THEN [data |-> <<>>, error |-> RestError(insertResult.error)]
            ELSE insertResult
       /\ createResponse' =
            IF insertResult'.error.set
              THEN CreateErrorResponse(insertResult'.error)
              ELSE CreateSuccess(MapDbRowToRoom(insertResult'.data[1]))
  /\ createPc' = "responded"
  /\ UNCHANGED createInput
  /\ UNCHANGED <<pc, codecVars, rooms, csvText, parsed, importVars, offerVars>>

CreateNext ==
  \/ PostReceived \/ DirectInsertSucceeds \/ DirectInsertFails
  \/ RestInsertReturns

CreateSpec == CreateInit /\ [][CreateNext]_vars

(***************************************************************************)
(* The offers table with its details dialog as a state machine.  The       *)
(* dialog is modal: a row is clicked and an offer created or deleted only  *)
(* while it is closed.  The update callback settles in the task of the     *)
(* click that started it, so nothing else happens while it is in flight;   *)
(* it resolves, the table and the dialog then taking the new status, or    *)
(* it rejects.                                                             *)
(***************************************************************************)
OfferInit ==
  /\ pc = "idle"
  /\ route = "none"
  /\ CodecIdle
  /\ CsvIdle
  /\ ImportIdle
  /\ CreateIdle
  /\ offers \in {AgencyMockOffers, HotelMockOffers}
  /\ selectedOffer = NoOffer
  /\ isDetailsDialogOpen = FALSE
  /\ currentStatus = "none"
  /\ isUpdatingStatus = FALSE
  /\ statusRequest = "none"

\* handleCreateOffer
HandleCreateOffer ==
  /\ ~isDetailsDialogOpen
  /\ Len(offers) < MaxOffers
  /\ \E status \in OfferStatuses : offers' = CreatedOffers(offers, status)
  /\ UNCHANGED <<selectedOffer, isDetailsDialogOpen, currentStatus,
                 isUpdatingStatus, statusRequest>>
  /\ UNCHANGED <<pc, codecVars, rooms, csvText, parsed, importVars, createVars>>

\* handleDeleteOffer
HandleDeleteOffer ==
  /\ ~isDetailsDialogOpen
  /\ \E i \in 1..Len(offers) : offers' = RemainingOffers(offers, offers[i].id)
  /\ UNCHANGED <<selectedOffer, isDetailsDialogOpen, currentStatus,
                 isUpdatingStatus, statusRequest>>
  /\ UNCHANGED <<pc, codecVars, rooms, csvText, parsed, importVars, createVars>>

\* handleRowClick, and the effect of the dialog on its new offer
HandleRowClick ==
  /\ ~isDetailsDialogOpen
  /\ \E i \in 1..Len(offers) :
       /\ selectedOffer' = offers[i]
       /\ currentStatus' = offers[i].status
  /\ isDetailsDialogOpen' = TRUE
  /\ UNCHANGED <<offers, isUpdatingStatus, statusRequest>>
  /\ UNCHANGED <<pc, codecVars, rooms, csvText, parsed, importVars, createVars>>

\* onOpenChange(false)
CloseDialog ==
  /\ isDetailsDialogOpen
  /\ statusRequest = "none"
  /\ isDetailsDialogOpen' = FALSE
  /\ UNCHANGED <<offers, selectedOffer, currentStatus, isUpdatingStatus,
                 statusRequest>>
  /\ UNCHANGED <<pc, codecVars, rooms, csvText, parsed, importVars, createVars>>

\* a click on a button of the dialog: handleStatusChange to its await
HandleStatusChange ==
  /\ isDetailsDialogOpen
  /\ ~isUpdatingStatus
  /\ \E newStatus \in StatusButtons(currentStatus) :
       IF StatusChangeIgnored(newStatus, currentStatus, isUpdatingStatus)
         THEN UNCHANGED <<isUpdatingStatus, statusRequest>>
         ELSE /\ isUpdatingStatus' = TRUE
              /\ statusRequest' = newStatus
  /\ UNCHANGED <<offers, selectedOffer, isDetailsDialogOpen, currentStatus>>
  /\ UNCHANGED <<pc, codecVars, rooms, csvText, parsed, importVars, createVars>>

\* onStatusChange resolves: the table's handleStatusChange has set the
\* offers and the selected offer, and the dialog sets its status
StatusChangeResolves ==
  /\ statusRequest # "none"
  /\ offers' = RestatedOffers(offers, selectedOffer.id, statusRequest)
  /\ selectedOffer' = Offer(selectedOffer.id, statusRequest)
  /\ currentStatus' = statusRequest
  /\ isUpdatingStatus' = FALSE
  /\ statusRequest' = "none"
  /\ UNCHANGED isDetailsDialogOpen
  /\ UNCHANGED <<pc, codecVars, rooms, csvText, parsed, importVars, createVars>>

\* onStatusChange rejects: the catch and the finally block
StatusChangeRejects ==
  /\ statusRequest # "none"
  /\ isUpdatingStatus' = FALSE
  /\ statusRequest' = "none"
  /\ UNCHANGED <<offers, selectedOffer, isDetailsDialogOpen, currentStatus>>
  /\ UNCHANGED <<pc, codecVars, rooms, csvText, parsed, importVars, createVars>>

OfferNext ==
  \/ HandleCreateOffer \/ HandleDeleteOffer \/ HandleRowClick \/ CloseDialog
  \/ HandleStatusChange \/ StatusChangeResolves \/ StatusChangeRejects

OfferSpec == OfferInit /\ [][OfferNext]_vars

(***************************************************************************)
(* Claims about the amenities codec.                                       *)
(***************************************************************************)
EncoderRoutes == {"create", "import", "seed"}

EmptyBraces == <<"{", "}">>

PlainName(s) == \A i \in 1..Len(s) : s[i] \notin {",", Q}

\* C1: for every list L of facility names without comma or double quote,
\* decoding the text an encoder produced from L yields exactly L
C1_RoundTrip ==
  (/\ pc = "mapped"
   /\ route \in EncoderRoutes
   /\ facilities.kind = "array"
   /\ \A i \in 1..Len(facilities.items) : PlainName(facilities.items[i]))
    => decoded = Returned(JsArray(facilities.items))

\* C3: decoding the stored string "{}" returns the empty list
C3_DecodeEmptyBraces ==
  (pc = "mapped" /\ amenities = JsString(EmptyBraces))
    => decoded = Returned(JsArray(<<>>))

\* C4: the empty list is encoded as "{}" by create, import and seed, and a
\* facilities value that is no list is encoded as the empty list is
C4_EmptyEncodesAsBraces ==
  (/\ pc = "stored"
   /\ route \in EncoderRoutes
   /\ (facilities.kind # "array" \/ facilities.items = <<>>))
    => amenities = JsString(EmptyBraces)

C4_Witness ==
  /\ pc = "stored"
  /\ route = "create"
  /\ facilities.kind # "array"
  /\ amenities = JsString(EmptyBraces)

\* C5: a stored string that is the JSON text of a list of strings decodes to
\* that list, in order; whenever the stored string parses as JSON the result
\* is the parsed value, the bracket form is not tried
C5_JsonArrayDecodes ==
  /\ (pc = "mapped" /\ route = "json") => decoded = Returned(facilities)
  /\ (pc = "mapped" /\ amenities.kind = "string" /\ amenities.text # <<>>
        /\ JsonParse(amenities.text).ok)
       => decoded = Returned(JsonParse(amenities.text).val)

C5_Witness ==
  /\ pc = "mapped"
  /\ route = "json"
  /\ Len(facilities.items) = 2
  /\ facilities.items[1] # facilities.items[2]
  /\ decoded.value = facilities

(***************************************************************************)
(* Claims about the CSV transcoder.                                        *)
(***************************************************************************)
SameRoom(a, b) ==
  /\ a.roomNumber = b.roomNumber
  /\ a.roomType = b.roomType
  /\ a.floor = b.floor
  /\ a.capacity = b.capacity
  /\ a.status = b.status
  /\ a.facilities = b.facilities

\* C2: parsing the export of a list of rooms returns one record per room, in
\* order, with the room's number, type, floor, capacity, status and
\* facilities (the id is not compared)
C2_ExportImportRoundTrip ==
  (pc = "parsed" /\ route = "export")
    => /\ ~parsed.threw
       /\ Len(parsed.rooms) = Len(rooms)
       /\ \A i \in 1..Len(rooms) : SameRoom(parsed.rooms[i], rooms[i])

\* the list without its i-th element
RemoveAt(list, i) == SubSeq(list, 1, i - 1) \o SubSeq(list, i + 1, Len(list))

FieldCountDiffers(lines, i) ==
  Len(ParseCSVLine(lines[i])) # Len(ParseHeaders(lines[1]))

\* C6: a data row whose field count differs from the header row's (fewer or
\* more) contributes no record: the result is the result for the text
\* without that line
C6_MismatchedRowDropped ==
  pc = "parsed"
    => \A i \in 2..Len(CsvLines(csvText)) :
         FieldCountDiffers(CsvLines(csvText), i)
           => parsed = ParseCSV(Join(RemoveAt(CsvLines(csvText), i), <<NL>>))

C6_Witness ==
  /\ pc = "parsed"
  /\ Len(parsed.rooms) = 1
  /\ \E i \in 2..Len(CsvLines(csvText)) :
       Len(ParseCSVLine(CsvLines(csvText)[i])) > Len(ParseHeaders(CsvLines(csvText)[1]))

\* the room each data line resolves to under the header row; a line with
\* another field count resolves to no room
ResolvedRooms(lines) ==
  LET headers == ParseHeaders(lines[1])
  IN [i \in 2..Len(lines) |->
        LET values == ParseCSVLine(lines[i])
        IN IF Len(values) = Len(headers)
             THEN [counted |-> TRUE, room |-> RowRoom(headers, values)]
             ELSE [counted |-> FALSE, room |-> EmptyRoom]]

\* the data lines with the header row's field count whose room number and
\* room type both resolve to non-empty values
GoodLines(resolved) ==
  {i \in DOMAIN resolved :
     /\ resolved[i].counted
     /\ resolved[i].room.roomNumber # <<>>
     /\ resolved[i].room.roomType # <<>>}

\* the k-th smallest element of a set of numbers
Nth(S, k) == CHOOSE m \in S : Cardinality({j \in S : j <= m}) = k

KeptAreGood(resolved, good, kept) ==
  /\ \A k \in 1..Len(kept) :
       kept[k].roomNumber # <<>> /\ kept[k].roomType # <<>>
  /\ Len(kept) = Cardinality(good)
  /\ \A k \in 1..Len(kept) :
       /\ kept[k].roomNumber = resolved[Nth(good, k)].room.roomNumber
       /\ kept[k].roomType = resolved[Nth(good, k)].room.roomType

\* C7: parseCSV keeps exactly the rows with the header's field count whose
\* room number and room type are both non-empty, in order; every record
\* returned has a non-empty roomNumber and roomType
C7_KeptIffNumberAndType ==
  (pc = "parsed" /\ Len(CsvLines(csvText)) >= 2)
    => LET resolved == ResolvedRooms(CsvLines(csvText))
       IN KeptAreGood(resolved, GoodLines(resolved), parsed.rooms)

C7_Witness ==
  /\ pc = "parsed"
  /\ Len(CsvLines(csvText)) = 3
  /\ Len(parsed.rooms) = 1
  /\ \E i \in 2..3 :
       LET r == ResolvedRooms(CsvLines(csvText))[i]
       IN /\ r.counted
          /\ r.room.roomNumber = <<>>
          /\ r.room.roomType # <<>>
          /\ r.room.facilities.items # <<>>

\* C8: a text with fewer than two non-blank lines parses to the empty list,
\* and nothing is thrown
C8_FewLinesGiveEmpty ==
  (pc = "parsed" /\ Len(CsvLines(csvText)) < 2) => parsed = Parsed(<<>>)

C8_Witness ==
  /\ pc = "parsed"
  /\ csvText = ExportHeaderLine
  /\ parsed = Parsed(<<>>)

\* C9: under the export header row, one data row of nine fields with room
\* number n, room type t and the quoted facilities cell "a; b" (n, t, a # b
\* drawn from the example values, among them 101, Standard Single,
\* Air conditioning and Linen) parses to exactly one record, with
\* roomNumber n, roomType t and facilities [a, b]
C9_ExportExampleParses ==
  pc = "parsed"
    => \A n \in ExampleNumbers, ty \in ExampleTypes, a \in ExampleNames :
       \A b \in ExampleNames \ {a} :
         csvText = ExportHeaderLine \o <<NL>> \o ExampleLine(n, ty, a, b)
           => /\ ~parsed.threw
              /\ Len(parsed.rooms) = 1
              /\ parsed.rooms[1].roomNumber = n
              /\ parsed.rooms[1].roomType = ty
              /\ parsed.rooms[1].facilities = JsArray(<<a, b>>)

C9_Witness ==
  /\ pc = "parsed"
  /\ csvText = ExportHeaderLine \o <<NL>>
                 \o ExampleLine(<<"1", "0", "1">>, <<"S", "t", "a", "n", "d", "a", "r", "d", " ", "S", "i", "n", "g", "l", "e">>,
                                <<"A", "i", "r", " ", "c", "o", "n", "d", "i", "t", "i", "o", "n", "i", "n", "g">>,
                                <<"L", "i", "n", "e", "n">>)
  /\ Len(parsed.rooms) = 1
  /\ parsed.rooms[1].facilities.items = <<<<"A", "i", "r", " ", "c", "o", "n", "d", "i", "t", "i", "o", "n", "i", "n", "g">>,
                                          <<"L", "i", "n", "e", "n">>>>

\* C10: parseCSV returns a list and throws nothing whatever the text, with
\* at most one record per data line; the amenities decoding of
\* mapDbRowToHotelRoom throws nothing whatever the stored value
C10_NothingThrows ==
  /\ pc = "parsed"
       => /\ ~parsed.threw
          /\ Len(parsed.rooms) <= Len(CsvLines(csvText))
          /\ (parsed.rooms # <<>> => Len(parsed.rooms) < Len(CsvLines(csvText)))
  /\ pc = "mapped" => ~decoded.threw

C10_Witness ==
  /\ pc = "mapped"
  /\ amenities.kind = "string"
  /\ amenities.text # <<>>
  /\ ~JsonParse(amenities.text).ok
  /\ ~BracketMatches(amenities.text)
  /\ decoded = Returned(JsArray(<<>>))

(***************************************************************************)
(* Claims about convertToCSV.                                              *)
(***************************************************************************)
\* the header row as it stands in an exported file
HeaderRowText ==
  <<"R", "o", "o", "m", " ", "I", "D", ",", "R", "o", "o", "m", " ",
    "N", "u", "m", "b", "e", "r", ",", "R", "o", "o", "m", " ", "T",
    "y", "p", "e", ",", "F", "l", "o", "o", "r", ",", "C", "a", "p",
    "a", "c", "i", "t", "y", ",", "F", "a", "c", "i", "l", "i", "t",
    "i", "e", "s", ",", "S", "t", "a", "t", "u", "s", ",", "C", "r",
    "e", "a", "t", "e", "d", " ", "A", "t", ",", "U", "p", "d", "a",
    "t", "e", "d", " ", "A", "t">>

\* the value a room carries in the k-th column of the header row
ColumnValue(room, k) ==
  CASE k = 1 -> room.id
    [] k = 2 -> room.roomNumber
    [] k = 3 -> room.roomType
    [] k = 4 -> IntToStr(room.floor)
    [] k = 5 -> IntToStr(room.capacity)
    [] k = 6 -> Join(room.facilities.items, <<";", " ">>)
    [] k = 7 -> room.status
    [] k = 8 -> room.createdAt
    [] k = 9 -> room.updatedAt

\* C11: the output of convertToCSV is the header row (Room ID, Room
\* Number, Room Type, Floor, Capacity, Facilities, Status, Created At,
\* Updated At) followed by one line per room in input order, and the
\* fields of the line of a room are the room's values in that column
\* order; for no rooms the output is the header row alone
C11_HeaderThenRows ==
  route = "export" =>
    LET lines == Split(csvText, NL) IN
      /\ Len(lines) = 1 + Len(rooms)
      /\ lines[1] = HeaderRowText
      /\ \A i \in 1..Len(rooms) :
           ParseCSVLine(lines[i + 1])
             = [k \in 1..9 |-> ColumnValue(rooms[i], k)]

C11_Witness ==
  /\ route = "export"
  /\ Len(rooms) = 2
  /\ rooms[1].id = <<"R", "M", "-", "4">>
  /\ rooms[2].id = <<"R", "M", "-", "3">>
  /\ Len(Split(csvText, NL)) = 3

\* a value between double quotes, each double quote of the value written
\* twice
QuotedCell(v) ==
  <<Q>> \o Join([i \in 1..Len(v) |-> IF v[i] = Q THEN <<Q, Q>> ELSE <<v[i]>>],
               <<>>)
        \o <<Q>>

\* the line of a room: its nine values, each as a quoted cell
QuotedRow(room) ==
  Join([k \in 1..9 |-> QuotedCell(ColumnValue(room, k))], <<",">>)

\* C12 as stated: every cell of the output of convertToCSV, those of the
\* header row included, is wrapped in double quotes with its double quotes
\* doubled, and the facilities are one cell joined by "; "
C12_EveryCellQuoted ==
  route = "export" =>
    LET lines == Split(csvText, NL) IN
      /\ lines[1] = Join(MapSeq(QuotedCell, ExportHeaders), <<",">>)
      /\ \A i \in 1..Len(rooms) : lines[i + 1] = QuotedRow(rooms[i])

\* C12, amended: every cell of every room's line is wrapped in double
\* quotes with each double quote of the value doubled, whether or not the
\* value needs quoting, the facilities being one cell joined by "; "; the
\* cells of the header row are written bare
C12_RoomCellsQuoted ==
  route = "export" =>
    LET lines == Split(csvText, NL) IN
      /\ \A k \in 1..Len(lines[1]) : lines[1][k] # Q
      /\ \A i \in 1..Len(rooms) : lines[i + 1] = QuotedRow(rooms[i])

C12_Witness ==
  /\ route = "export"
  /\ Len(rooms) = 2
  /\ Includes(rooms[1].roomType, Q)
  /\ Len(rooms[2].facilities.items) = 3
  /\ Len(csvText) > Len(HeaderRowText)

(***************************************************************************)
(* Further claims about the amenities codec.                               *)
(***************************************************************************)
\* C15: for every stored amenities value (absent, a native list or any
\* string) the facilities the decoder produces are a list of strings, and
\* for a string that neither parses as JSON nor has the bracket form they
\* are the empty list
C15_DecodesToStringList ==
  pc = "mapped" =>
    /\ ~decoded.threw
    /\ decoded.value.kind = "array"
    /\ (/\ amenities.kind = "string"
        /\ ~JsonParse(amenities.text).ok
        /\ ~BracketMatches(amenities.text))
         => decoded.value = JsArray(<<>>)

\* a text of the bracket form: an opening brace, a non-empty interior and
\* a closing brace
HasBracketForm(text) ==
  Len(text) >= 3 /\ text[1] = "{" /\ text[Len(text)] = "}"

\* the pieces of the interior: split on commas, each piece trimmed, then
\* without one leading and one trailing double quote, the empty ones left out
InteriorPieces(text) ==
  LET pieces == Split(SubSeq(text, 2, Len(text) - 1), ",")
  IN FilterNonEmpty([k \in 1..Len(pieces) |-> StripQuotes(Trim(pieces[k]))])

\* C16: a stored string that fails JSON parsing and has the bracket form
\* with a non-empty interior decodes to the pieces of its interior (split
\* on commas, trimmed, one leading and one trailing double quote removed,
\* empty pieces dropped), in their order
C16_BracketPieces ==
  (/\ pc = "mapped"
   /\ amenities.kind = "string"
   /\ ~JsonParse(amenities.text).ok
   /\ HasBracketForm(amenities.text))
    => decoded = Returned(JsArray(InteriorPieces(amenities.text)))

\* an element between double quotes, each double quote of the element
\* preceded by a backslash and every other character as it is
WrappedElement(e) ==
  <<Q>> \o Join([i \in 1..Len(e) |-> IF e[i] = Q THEN <<BS, Q>> ELSE <<e[i]>>],
               <<>>)
        \o <<Q>>

InQuoteMode(line, i) ==
  Cardinality({j \in 1..(i - 1) : line[j] = Q}) % 2 = 1

\* the commas of a line met outside quote mode, and those met inside
OuterCommas(line) ==
  {i \in 1..Len(line) : line[i] = "," /\ ~InQuoteMode(line, i)}

InnerCommas(line) ==
  {i \in 1..Len(line) : line[i] = "," /\ InQuoteMode(line, i)}

\* the index at which the run of double quotes holding index j starts
RunStart(line, j) ==
  Least({s \in 1..j : \A k \in s..j : line[k] = Q})

\* the double quotes that are the second of an escaped pair: in a run met
\* in quote mode the pairs start at once, in a run met outside it the first
\* quote opens quote mode and the pairs follow
EscapedSeconds(line) ==
  {j \in 1..Len(line) :
     /\ line[j] = Q
     /\ LET s == RunStart(line, j)
        IN IF InQuoteMode(line, s)
             THEN (j - s) % 2 = 1
             ELSE (j - s) % 2 = 0 /\ j - s >= 2}

\* the number of occurrences of character c in the fields of a list
Occurrences(fields, c) ==
  Cardinality({p \in UNION {{f} \X (1..Len(fields[f])) : f \in 1..Len(fields)} :
                 fields[p[1]][p[2]] = c})

\* C18: the line parser returns exactly 1 + (number of commas met outside
\* quote mode) fields, the last one emitted at the end of the line; the
\* commas met in quote mode are kept in the fields; an escaped pair of
\* double quotes adds one double quote to a field and no other double
\* quote reaches a field
C18_FieldsOfLine ==
  pc = "parsed" =>
    LET lines == Split(csvText, NL) IN
      \A n \in 1..Len(lines) :
        LET fields == ParseCSVLine(lines[n]) IN
          /\ Len(fields) = 1 + Cardinality(OuterCommas(lines[n]))
          /\ Occurrences(fields, ",") = Cardinality(InnerCommas(lines[n]))
          /\ Occurrences(fields, Q) = Cardinality(EscapedSeconds(lines[n]))

C18_Witness ==
  /\ pc = "parsed"
  /\ \E n \in 1..Len(Split(csvText, NL)) :
       LET line == Split(csvText, NL)[n] IN
         /\ OuterCommas(line) # {}
         /\ InnerCommas(line) # {}
         /\ EscapedSeconds(line) # {}
         /\ Len(ParseCSVLine(line)) = 9

\* the pieces of a cell split on a separator, each trimmed, the empty ones
\* dropped
TrimmedPieces(cell, sep) ==
  LET pieces == Split(cell, sep)
  IN FilterNonEmpty([k \in 1..Len(pieces) |-> Trim(pieces[k])])

\* the facilities a cell stands for, by the first rule that applies
FacilitiesOfCell(cell) ==
  CASE cell # <<>> /\ cell[1] = "[" /\ cell[Len(cell)] = "]" ->
         IF JsonParse(cell).ok THEN JsonParse(cell).val
         ELSE JsArray(TrimmedPieces(cell, ","))
    [] OTHER ->
         CASE Includes(cell, ";") -> JsArray(TrimmedPieces(cell, ";"))
           [] OTHER -> IF cell # <<>> THEN JsArray(<<cell>>) ELSE JsArray(<<>>)

\* the columns of a header row named facilities or amenities
FacilitiesColumns(headers) ==
  {j \in 1..Len(headers) :
     ToLowerCase(headers[j])
       \in { <<"f", "a", "c", "i", "l", "i", "t", "i", "e", "s">>,
             <<"a", "m", "e", "n", "i", "t", "i", "e", "s">> }}

\* C19: the facilities of a kept record are those its facilities cell
\* stands for by the first rule that applies: a cell from '[' to ']' is
\* JSON-parsed, and split on ',' (trimmed, empties dropped) if that parse
\* throws; otherwise a cell with ';' is split on ';' (trimmed, empties
\* dropped); otherwise a non-empty cell is one facility and an empty cell
\* is the empty list
C19_FacilitiesCellRules ==
  (pc = "parsed" /\ Len(CsvLines(csvText)) >= 2)
    => LET lines == CsvLines(csvText)
           headers == ParseHeaders(lines[1])
           cols == FacilitiesColumns(headers)
           good == GoodLines(ResolvedRooms(lines))
       IN Cardinality(cols) = 1 =>
            \A k \in 1..Len(parsed.rooms) :
              \A values \in {ParseCSVLine(lines[Nth(good, k)])} :
                parsed.rooms[k].facilities
                  = FacilitiesOfCell(CellValue(values[Nth(cols, 1)]))

\* a text whose kept records show the JSON rule, the ';' rule taking second
\* place to it, and the single facility
C19_Witness ==
  /\ pc = "parsed"
  /\ Len(parsed.rooms) = 2
  /\ parsed.rooms[1].facilities = JsArray(<< <<"S", "e", "a", ";", " ", "v", "i", "e", "w">> >>)
  /\ parsed.rooms[2].facilities = JsArray(<< <<"L", "i", "n", "e", "n">> >>)

\* the columns of a header row with one of the given lower-case names
ColumnsNamed(headers, names) ==
  {j \in 1..Len(headers) : ToLowerCase(headers[j]) \in names}

\* the cell of a row under the column with one of the names; a row without
\* such a column has no cell, which reads as the empty cell
CellNamed(headers, values, names) ==
  LET cols == ColumnsNamed(headers, names)
  IN IF cols = {} THEN <<>> ELSE CellValue(values[Greatest(cols)])

\* a cell holding a valid integer: digits, after a minus sign or not
ValidInteger(cell) ==
  LET d == IF cell # <<>> /\ cell[1] = "-" THEN Tail(cell) ELSE cell
  IN d # <<>> /\ \A i \in 1..Len(d) : d[i] \in Digits

IntegerOf(cell) ==
  IF cell[1] = "-" THEN 0 - DigitsValue(Tail(cell), 0)
  ELSE DigitsValue(cell, 0)

\* a cell no integer can be read from: it is empty or holds no digit
NoInteger(cell) == \A i \in 1..Len(cell) : cell[i] \notin Digits

\* the number a floor or capacity cell gives
NumberOfCell(cell, number) ==
  /\ NoInteger(cell) => number = 1
  /\ ValidInteger(cell) => number = IntegerOf(cell)

\* C20: in every record kept by parseCSV a missing, empty or unparsable
\* floor cell gives floor 1 and likewise capacity 1, a missing or empty
\* status cell gives status available, a record without id value gets a
\* non-empty placeholder id, and a floor or capacity cell holding a valid
\* integer gives that integer
C20_DefaultsAndIntegers ==
  (pc = "parsed" /\ Len(CsvLines(csvText)) >= 2)
    => LET lines == CsvLines(csvText)
           headers == ParseHeaders(lines[1])
           good == GoodLines(ResolvedRooms(lines))
       IN \A k \in 1..Len(parsed.rooms) :
            \A values \in {ParseCSVLine(lines[Nth(good, k)])} :
              LET room == parsed.rooms[k]
              IN /\ NumberOfCell(CellNamed(headers, values, {<<"f", "l", "o", "o", "r">>}),
                                 room.floor)
                 /\ NumberOfCell(CellNamed(headers, values,
                                           {<<"c", "a", "p", "a", "c", "i", "t", "y">>}),
                                 room.capacity)
                 /\ CellNamed(headers, values, {<<"s", "t", "a", "t", "u", "s">>}) = <<>>
                      => room.status = <<"a", "v", "a", "i", "l", "a", "b", "l", "e">>
                 /\ room.id # <<>>

(***************************************************************************)
(* Claims about the import endpoint and the upload flow.                   *)
(***************************************************************************)
\* the columns of a stored row that a submitted room fills
SameColumns(row, data) ==
  /\ row.roomNumber = data.roomNumber
  /\ row.roomType = data.roomType
  /\ row.floor = data.floor
  /\ row.capacity = data.capacity
  /\ row.status = data.status
  /\ row.amenities = data.amenities

\* the ids of the rows of a table
StoredIds(table) == {table[i].id : i \in 1..Len(table)}

\* table `after` is table `before` with one new row per submitted room, in
\* order, each under an id no other row has
Appended(before, after, submitted) ==
  /\ Len(after) = Len(before) + Len(submitted)
  /\ SubSeq(after, 1, Len(before)) = before
  /\ Cardinality(StoredIds(after)) = Len(after)
  /\ \A k \in 1..Len(submitted) :
       SameColumns(after[Len(before) + k], InsertData(submitted[k]))

\* C13: import is append-only: whatever the imports, a step of the import
\* route leaves every stored row as it is and either stores nothing more or
\* appends one new row per submitted room under ids the database assigns;
\* the id a submitted room carries selects no stored row, so the same rooms
\* imported twice are stored twice
C13_AppendOnly ==
  [][\/ db' = db
     \/ \E req \in requests :
          /\ req.body = "list"
          /\ req.rooms # <<>>
          /\ Appended(db, db', req.rooms)]_vars

\* one file imported twice: its room carries the id the database gave the
\* row of the first import, and the second import stored a second row
C13_Witness ==
  /\ Len(db) = 2
  /\ db[1].id = <<"1">>
  /\ db[1].roomNumber = [nan |-> FALSE, n |-> 7]
  /\ SameColumns(db[2], db[1])
  /\ db[2].id # db[1].id
  /\ rooms # <<>>
  /\ requests = {}

\* the requests the upload flow has in flight
UploadRequests == {req \in requests : req.from = "upload"}

\* the records parseCSV returns for each file
FileRecords == [text \in ImportFiles |-> ParseCSV(text).rooms]

\* C14: in the upload flow, when parseCSV returns no record for the chosen
\* file the import request is never sent and an error is set for the user;
\* the request is sent only after a parse that gave at least one record,
\* and carries those records
C14_NoRecordsNoRequest ==
  LET records == FileRecords[csvText] IN
    /\ (pc # "idle" /\ Len(records) = 0)
         => /\ ~posted
            /\ UploadRequests = {}
            /\ pc \in {"reading", "settled"}
            /\ pc = "settled" => error.set
    /\ posted => Len(records) >= 1 /\ parsed.rooms = records
    /\ \A req \in UploadRequests :
         posted /\ req.body = "list" /\ req.rooms = records

\* a file with a header row and a row that is dropped: nothing was sent and
\* the error is shown
C14_Witness ==
  /\ pc = "settled"
  /\ Len(csvText) > Len(ShortHeaderLine)
  /\ parsed = Parsed(<<>>)
  /\ ~posted
  /\ requests = {}
  /\ ~importing
  /\ error = ErrorSet("No valid room data found in CSV file")

(***************************************************************************)
(* Claims about the records of parseCSV.                                   *)
(***************************************************************************)
\* C21: every record parseCSV returns has an integer floor >= 0 and an
\* integer capacity >= 0, whatever the text of the floor and capacity cells
C21_FloorCapacityNonNegative ==
  pc = "parsed" =>
    \A k \in 1..Len(parsed.rooms) :
      /\ parsed.rooms[k].floor \in Nat
      /\ parsed.rooms[k].capacity \in Nat

\* C22: the status of a kept record is the unquoted text of its status
\* cell whenever that text is not empty, whether or not it is one of
\* available, occupied, reserved, maintenance; the rows kept are those with
\* the header's field count, a room number and a room type, whatever their
\* status
C22_StatusPassedThrough ==
  (pc = "parsed" /\ Len(CsvLines(csvText)) >= 2)
    => LET lines == CsvLines(csvText)
           headers == ParseHeaders(lines[1])
           good == GoodLines(ResolvedRooms(lines))
       IN /\ Len(parsed.rooms) = Cardinality(good)
          /\ \A k \in 1..Len(parsed.rooms) :
               \A values \in {ParseCSVLine(lines[Nth(good, k)])} :
                 \A cell \in {CellNamed(headers, values,
                                        {<<"s", "t", "a", "t", "u", "s">>})} :
                   cell # <<>> => parsed.rooms[k].status = cell

C22_Witness ==
  /\ pc = "parsed"
  /\ Len(parsed.rooms) = 2
  /\ parsed.rooms[1].status = <<"c", "l", "o", "s", "e", "d">>
  /\ parsed.rooms[2].status = <<"r", "e", "s", "e", "r", "v", "e", "d">>

\* a header cell as it is matched: trimmed, without one leading and one
\* trailing double quote, in lower case
MatchedName(h) == ToLowerCase(StripQuotes(Trim(h)))

\* the recognized names, by the field of the record they fill
NamesOfId == {<<"i", "d">>}
NamesOfRoomNumber == {<<"r", "o", "o", "m", "-", "n", "u", "m", "b", "e", "r">>,
                      <<"r", "o", "o", "m", " ", "n", "u", "m", "b", "e", "r">>}
NamesOfRoomType == {<<"r", "o", "o", "m", "-", "t", "y", "p", "e">>,
                    <<"r", "o", "o", "m", " ", "t", "y", "p", "e">>}
NamesOfFloor == {<<"f", "l", "o", "o", "r">>}
NamesOfCapacity == {<<"c", "a", "p", "a", "c", "i", "t", "y">>}
NamesOfFacilities == {<<"a", "m", "e", "n", "i", "t", "i", "e", "s">>,
                      <<"f", "a", "c", "i", "l", "i", "t", "i", "e", "s">>}
NamesOfStatus == {<<"s", "t", "a", "t", "u", "s">>}
NamesOfCreatedAt == {<<"c", "r", "e", "a", "t", "e", "d", "_", "a", "t">>,
                     <<"c", "r", "e", "a", "t", "e", "d", " ", "a", "t">>}
NamesOfUpdatedAt == {<<"u", "p", "d", "a", "t", "e", "d", "_", "a", "t">>,
                     <<"u", "p", "d", "a", "t", "e", "d", " ", "a", "t">>}

RecognizedNames ==
  NamesOfId \cup NamesOfRoomNumber \cup NamesOfRoomType \cup NamesOfFloor
    \cup NamesOfCapacity \cup NamesOfFacilities \cup NamesOfStatus
    \cup NamesOfCreatedAt \cup NamesOfUpdatedAt

\* the value of the last cell of a row under a header cell matching one of
\* the names; empty when no header cell matches
CellUnder(cells, values, names) ==
  LET cols == {j \in 1..Len(cells) : MatchedName(cells[j]) \in names}
  IN IF cols = {} THEN <<>> ELSE CellValue(values[Greatest(cols)])

\* the record of a row agrees with the cells under the recognized names
MatchesCells(room, cells, values) ==
  /\ room.roomNumber = CellUnder(cells, values, NamesOfRoomNumber)
  /\ room.roomType = CellUnder(cells, values, NamesOfRoomType)
  /\ \A cell \in {CellUnder(cells, values, NamesOfId)} :
       cell # <<>> => room.id = cell
  /\ \A cell \in {CellUnder(cells, values, NamesOfFloor)} :
       (ValidInteger(cell) /\ IntegerOf(cell) # 0) => room.floor = IntegerOf(cell)
  /\ \A cell \in {CellUnder(cells, values, NamesOfCapacity)} :
       (ValidInteger(cell) /\ IntegerOf(cell) # 0) => room.capacity = IntegerOf(cell)
  /\ room.facilities = FacilitiesOfCell(CellUnder(cells, values, NamesOfFacilities))
  /\ \A cell \in {CellUnder(cells, values, NamesOfStatus)} :
       cell # <<>> => room.status = cell
  /\ \A cell \in {CellUnder(cells, values, NamesOfCreatedAt)} :
       room.createdAt = IF cell # <<>> THEN cell ELSE NowIso
  /\ \A cell \in {CellUnder(cells, values, NamesOfUpdatedAt)} :
       room.updatedAt = IF cell # <<>> THEN cell ELSE NowIso

\* the data lines kept under the header cells: those with as many fields
\* as the header row, recognized or not, and a room number and a room type
KeptLines(lines, cells) ==
  {i \in 2..Len(lines) :
     \A values \in {ParseCSVLine(lines[i])} :
       /\ Len(values) = Len(cells)
       /\ CellUnder(cells, values, NamesOfRoomNumber) # <<>>
       /\ CellUnder(cells, values, NamesOfRoomType) # <<>>}

\* C23: header cells are matched without regard to case, after trimming and
\* removing one layer of surrounding quotes, against the recognized names;
\* every record is filled from the cells under those names, and a column
\* under any other header changes no record, though it counts toward the
\* field count of the row
C23_HeadersMatched ==
  (pc = "parsed" /\ Len(CsvLines(csvText)) >= 2)
    => \A lines \in {CsvLines(csvText)} :
         \A cells \in {ParseCSVLine(lines[1])} :
           \A kept \in {KeptLines(lines, cells)} :
             /\ Len(parsed.rooms) = Cardinality(kept)
             /\ \A k \in 1..Len(parsed.rooms) :
                  \A values \in {ParseCSVLine(lines[Nth(kept, k)])} :
                    /\ MatchesCells(parsed.rooms[k], cells, values)
                    /\ \A j \in 1..Len(cells) :
                         MatchedName(cells[j]) \notin RecognizedNames
                           => PushedRoom(RowRoom(ParseHeaders(Join(RemoveAt(cells, j), <<",">>)),
                                                 RemoveAt(values, j)))
                                = parsed.rooms[k]

\* a record filled under padded, upper-case and underscore headers, beside
\* a column that is not recognized
C23_Witness ==
  /\ pc = "parsed"
  /\ Len(parsed.rooms) = 1
  /\ parsed.rooms[1].roomNumber = <<"1", "2">>
  /\ parsed.rooms[1].createdAt = <<"2", "0", "2", "4", "-", "0", "5", "-", "0", "1">>
  /\ parsed.rooms[1].status = <<"c", "l", "o", "s", "e", "d">>
  /\ parsed.rooms[1].updatedAt = NowIso
  /\ parsed.rooms[1].capacity = 3

\* the ids of the rooms handed to convertToCSV
ExportedIds == {rooms[i].id : i \in 1..Len(rooms)}

\* C24: no record parsed back from an export carries the id of an exported
\* room: the export names its first column Room ID, which is not a
\* recognized header, so every record has the synthesized placeholder id
C24_ExportedIdsNotReimported ==
  (pc = "parsed" /\ route = "export")
    => \A k \in 1..Len(parsed.rooms) :
         /\ parsed.rooms[k].id = SynthId
         /\ parsed.rooms[k].id \notin ExportedIds

\* two exported rooms parsed back, both without their ids
C24_Witness ==
  /\ pc = "parsed"
  /\ route = "export"
  /\ Len(rooms) = 2
  /\ Len(parsed.rooms) = 2
  /\ parsed.rooms[1].roomNumber = rooms[1].roomNumber
  /\ rooms[1].id # rooms[2].id

\* C25: the amenities encoders of the create, import and seed routes are
\* equivalent: from every list of strings each produces the same text, so
\* the text a route stored is the text either other route would have stored
C25_EncodersAgree ==
  (/\ pc = "stored"
   /\ route \in EncoderRoutes
   /\ facilities.kind = "array")
    => /\ amenities = JsString(CreateAmenitiesArray(facilities))
       /\ amenities = JsString(ImportAmenitiesArray(facilities))
       /\ amenities = JsString(SeedAmenities(facilities.items))

\* a list with a double quote and a backslash encoded by the seed route
C25_Witness ==
  /\ pc = "stored"
  /\ route = "seed"
  /\ facilities = JsArray(<< <<"a", Q, "b">>, <<"a", BS>> >>)
  /\ amenities = JsString(ImportAmenitiesArray(facilities))

(***************************************************************************)
(* Claims about the room create endpoint.                                  *)
(***************************************************************************)
\* the room number of a body parses to a number: a string does when digits
\* follow its leading white space and sign, any other value when its
\* numeric value is a number
ParsesToNumber(roomNumber) ==
  IF roomNumber.type = "string"
    THEN LET a == TrimStart(roomNumber.text)
             b == IF a # <<>> /\ Head(a) \in {"-", "+"} THEN Tail(a) ELSE a
         IN b # <<>> /\ Head(b) \in Digits
    ELSE roomNumber.type \in {"number", "boolean"}

\* the guards of the endpoint in the order claimed: whether the k-th is
\* failed by a request, and the response it answers with
GuardFailed(k, input) ==
  CASE k = 1 -> input.auth = "signed out"
    [] k = 2 -> input.auth = "no organization"
    [] k = 3 -> input.auth = "not a hotel"
    [] k = 4 -> \/ RoomNumberFalsy(input.body.roomNumber)
                \/ input.body.roomType = <<>>
    [] k = 5 -> ~ParsesToNumber(input.body.roomNumber)

GuardAnswers ==
  << CreateRefusal(401, "Unauthorized"),
     CreateRefusal(400, "Organization ID required"),
     CreateRefusal(403, "Only hotel organizations can create rooms"),
     CreateRefusal(400, "Room number and room type are required"),
     CreateRefusal(400, "Room number must be a valid number") >>

\* the first guard a request fails, 0 when it passes all
FirstFailed(input) ==
  IF \E k \in 1..5 : GuardFailed(k, input)
    THEN Least({k \in 1..5 : GuardFailed(k, input)})
    ELSE 0

\* the organization lookup and the reading of the body do not throw before
\* the guard is reached
GuardReached(k, input) ==
  /\ k >= 3 => input.auth # "lookup fails"
  /\ k >= 4 => input.body.readable

\* C26: no insert is attempted unless all five guards pass, and a request
\* is answered by the first guard it fails, in the order 401 no user, 400 no
\* organization, 403 not a hotel, 400 room number or room type missing, 400
\* room number not a number; it never reports the error of a later guard
C26_GuardsInOrder ==
  /\ calls # <<>> => FirstFailed(createInput) = 0
  /\ createPc = "responded"
       => \A k \in 1..5 :
            (FirstFailed(createInput) = k /\ GuardReached(k, createInput))
              => /\ createResponse = GuardAnswers[k]
                 /\ calls = <<>>

\* a request without a user and without a room number is answered 401
C26_Witness ==
  /\ createPc = "responded"
  /\ createInput.auth = "signed out"
  /\ createInput.body.readable
  /\ GuardFailed(4, createInput)
  /\ GuardFailed(5, createInput)
  /\ createResponse.status = 401

\* C27: the REST insert is attempted at most once per request, only after
\* the direct insert failed with code PGRST204, PGRST202 or 22P02; once an
\* insert was attempted the response is 201 with the created room exactly
\* when the direct insert succeeded or the REST insert answered ok, and 500
\* otherwise; when the REST insert throws or is not configured the error of
\* the direct insert is the one reported
C27_FallbackOnceThenResponse ==
  /\ Cardinality({i \in 1..Len(calls) : calls[i].to = "rest"}) <= 1
  /\ \A i \in 1..Len(calls) :
       calls[i].to = "rest"
         => /\ i = 2
            /\ calls[1] \in {DirectCall("error", c) : c \in FallbackCodes}
  /\ (createPc = "responded" /\ calls # <<>>)
       => IF \E i \in 1..Len(calls) : calls[i].outcome = "ok"
            THEN /\ createResponse.status = 201
                 /\ createResponse.room
                      = <<MapDbRowToRoom(InsertedRow(createInput.body))>>
            ELSE /\ createResponse.status = 500
                 /\ createResponse.room = <<>>
                 /\ (Len(calls) = 1 \/ calls[2].outcome = "throws")
                      => /\ insertResult.error.code = calls[1].code
                         /\ insertResult.error \in InsertErrors
                         /\ createResponse = CreateErrorResponse(insertResult.error)

\* a request answered 201 by the REST insert after the direct insert failed
C27_Witness ==
  /\ createPc = "responded"
  /\ Len(calls) = 2
  /\ calls[1].code = "22P02"
  /\ calls[2] = RestCall("ok")
  /\ createResponse.status = 201

(***************************************************************************)
(* Claims about the offers tables and the offer details dialog.            *)
(***************************************************************************)
\* C28: after any sequence of create-offer and delete-offer operations on
\* an offers table all its offers have pairwise distinct ids
C28_DistinctOfferIds ==
  \A i, j \in 1..Len(offers) : i # j => offers[i].id # offers[j].id

\* the status changes the dialog offers
DialogChanges ==
  { <<"pending", "active">>, <<"pending", "completed">>,
    <<"pending", "canceled">>, <<"active", "completed">>,
    <<"active", "canceled">> }

\* C29: through the offer details dialog a status change is requested only
\* while the displayed status is pending (to active, completed or canceled)
\* or active (to completed or canceled), so nothing changes once completed
\* or canceled and active never returns to pending; a request for the
\* current status or made while an update is in flight is ignored; an
\* update in flight settles next, the displayed status taking the requested
\* status or, when the callback fails, staying as it was, the in-flight
\* flag cleared
C29_DialogStatusChanges ==
  /\ [](/\ isUpdatingStatus <=> statusRequest # "none"
        /\ \A newStatus \in OfferStatuses :
             StatusChangeIgnored(newStatus, currentStatus, isUpdatingStatus)
               <=> (newStatus = currentStatus \/ statusRequest # "none"))
  /\ [][/\ (statusRequest = "none" /\ statusRequest' # "none")
             => /\ <<currentStatus, statusRequest'>> \in DialogChanges
                /\ isUpdatingStatus'
                /\ currentStatus' = currentStatus
        /\ statusRequest # "none"
             => /\ statusRequest' = "none"
                /\ ~isUpdatingStatus'
                /\ selectedOffer'.id = selectedOffer.id
                /\ currentStatus' \in {currentStatus, statusRequest}
                /\ currentStatus' # currentStatus
                     => <<currentStatus, currentStatus'>> \in DialogChanges
        /\ (statusRequest = "none" /\ isDetailsDialogOpen /\ isDetailsDialogOpen')
             => currentStatus' = currentStatus]_vars

\* the pending offer activated through the dialog, its completion in flight
C29_Witness ==
  /\ selectedOffer = Offer(<<"O", "F", "F", "-", "0", "0", "2">>, "active")
  /\ currentStatus = "active"
  /\ isUpdatingStatus
  /\ statusRequest = "completed"
  /\ Len(offers) = 2
  /\ offers[2] = selectedOffer

(***************************************************************************)
(* Claims about the importing flag of the upload flow.                     *)
(***************************************************************************)
\* the positions of handleImportCSV between its start and its end
ProcessingFile == pc \in {"reading", "posting", "refreshing"}

\* C30: importing is true only between the start and the end of processing
\* a chosen file, and on every path (no record parsed, the server's refusal,
\* a network failure, success) it is eventually false again with the file
\* input cleared; a change event without a file leaves importing and error
\* as they are
C30_ImportingReset ==
  /\ [](importing <=> ProcessingFile)
  /\ [](ImportStarted(NoFile, importing, error)
          = [importing |-> importing, error |-> error])
  /\ [][pc = "settled" /\ pc' = "settled"
          => /\ importing' = importing
             /\ error' = error]_vars
  /\ importing ~> (~importing /\ fileInput = NoFile)

\* a file without a valid record, its processing ended
C30_Witness ==
  /\ pc = "settled"
  /\ parsed = Parsed(<<>>)
  /\ csvText # <<>>
  /\ error = ErrorSet("No valid room data found in CSV file")
  /\ ~importing
  /\ fileInput = NoFile

====
